---------------------------- MODULE Spec2Model ----------------------------
(***************************************************************************)
(* A model of music-dedupe: the command line tool (src/dedupe_music.py)    *)
(* and the GUI (src/music_dedupe_gui.py).                                  *)
(*                                                                         *)
(* Strings are sequences of one-character strings, so that the regular     *)
(* expressions of normalize_title, the formatting of group keys and the    *)
(* renaming of moved files act on characters as the code does.  A path is  *)
(* a record [dir, name, ext]: os.path.join, os.path.basename and           *)
(* os.path.splitext are the record's construction and projections.         *)
(* Scores are kept multiplied by 1024, which makes size / 1024 an integer  *)
(* and keeps every comparison of scores what it is in the code.            *)
(***************************************************************************)
EXTENDS Integers, Sequences, FiniteSets, TLC

(***************************************************************************)
(* Bounds of the model.                                                    *)
(***************************************************************************)
\* the longest list of root directories handed to find_duplicates
MaxRoots == 2
\* the number of pieces a base name is built from in SpecNorm
MaxPieces == 3
\* the number of files that may vanish from the disk under a scan
MaxVanish == 1
\* the number of workers the GUI starts in one session
MaxStarts == 2
\* the number of changes the user makes to the controls in one session
MaxEdits == 1

(***************************************************************************)
(* Characters.                                                             *)
(***************************************************************************)
\* the characters of the model, in ASCII order
Alphabet ==
    << " ", "#", "(", ")", "-", ".", "/",
       "0", "1", "2", "3", "4", "5", "6", "7", "8", "9",
       ":", ";", "<", "=", ">", "?", "@",
       "A", "B", "C", "D", "E", "F", "G", "H", "I", "J", "K", "L", "M",
       "N", "O", "P", "Q", "R", "S", "T", "U", "V", "W", "X", "Y", "Z",
       "[", "\\", "]", "^", "_",
       "a", "b", "c", "d", "e", "f", "g", "h", "i", "j", "k", "l", "m",
       "n", "o", "p", "q", "r", "s", "t", "u", "v", "w", "x", "y", "z",
       "{", "}" >>

Chars == {Alphabet[i] : i \in DOMAIN Alphabet}

\* a function given by a rule, as the table of its values
Tabulated(f) == f @@ << >>

\* a sequence given by a rule, as the list of its elements
AsList(f) == f \o << >>

\* the position of each character in the alphabet
OrdTable ==
    Tabulated([c \in Chars |-> CHOOSE i \in DOMAIN Alphabet : Alphabet[i] = c])

\* the position of a character in the alphabet (its order among code points)
Ord(c) == OrdTable[c]

\* a character range [lo-hi] of a regular expression
CharRange(lo, hi) == {c \in Chars : Ord(lo) <= Ord(c) /\ Ord(c) <= Ord(hi)}

Digits == CharRange("0", "9")

UpperCase == CharRange("A", "Z")

\* \s, as far as the alphabet goes
Whitespace == {" "}

\* str.lower() on one character
LowerChar(c) ==
    IF c \in UpperCase THEN Alphabet[Ord(c) + (Ord("a") - Ord("A"))] ELSE c

\* str.lower()
Lower(s) == [i \in 1..Len(s) |-> LowerChar(s[i])]

\* str.strip(): leading and trailing whitespace removed
Strip(s) ==
    LET keep == {i \in 1..Len(s) : s[i] \notin Whitespace}
    IN  IF keep = {} THEN << >>
        ELSE SubSeq(s, CHOOSE i \in keep : \A j \in keep : i <= j,
                       CHOOSE i \in keep : \A j \in keep : j <= i)

\* the length of the longest run of characters of class starting at s[from]
RunFrom(s, from, class) ==
    LET stop == {i \in from..Len(s) : s[i] \notin class}
    IN  IF from > Len(s) THEN 0
        ELSE IF stop = {} THEN Len(s) - from + 1
        ELSE (CHOOSE i \in stop : \A j \in stop : i <= j) - from

\* str.endswith
EndsWith(s, suffix) ==
    /\ Len(suffix) <= Len(s)
    /\ SubSeq(s, Len(s) - Len(suffix) + 1, Len(s)) = suffix

\* the literal lit (given in lower case) at s[i], compared ignoring case
MatchesAt(s, i, lit) ==
    /\ i >= 1
    /\ i + Len(lit) - 1 <= Len(s)
    /\ \A k \in 1..Len(lit) : LowerChar(s[i + k - 1]) = lit[k]

\* the first index >= from where s holds character c, or 0
FirstChar(s, from, c) ==
    LET at == {i \in from..Len(s) : s[i] = c}
    IN  IF at = {} THEN 0 ELSE CHOOSE i \in at : \A j \in at : i <= j

(***************************************************************************)
(* normalize_title: the three substitutions.                               *)
(***************************************************************************)
\* [\s\.-_] : whitespace, and the range from "." to "_"
PrefixClass == Whitespace \cup CharRange(".", "_")

\* re.sub(r'^\d+[\s\.-_]+', '', name): greedy \d+, which gives digits back
\* until the class matches at least once, then the longest run of the class
StripTrackPrefix(name) ==
    LET n     == RunFrom(name, 1, Digits)
        cands == {d \in 1..n : RunFrom(name, d + 1, PrefixClass) >= 1}
    IN  IF cands = {} THEN name
        ELSE LET d == CHOOSE x \in cands : \A y \in cands : y <= x
             IN  SubSeq(name, d + RunFrom(name, d + 1, PrefixClass) + 1,
                        Len(name))

\* \(Live.*?\) and its like: the literal at i, then up to the first ")"
OpenLiteral(s, i, lit) ==
    IF MatchesAt(s, i, lit) THEN FirstChar(s, i + Len(lit), ")") ELSE 0

\* \(.*?Mix.*?\) and its like: "(" at i, the first occurrence of the literal
\* that a ")" follows, then up to the first ")"
InnerLiteral(s, i, lit) ==
    LET at == {k \in (i + 1)..Len(s) :
                   MatchesAt(s, k, lit) /\ FirstChar(s, k + Len(lit), ")") # 0}
    IN  IF s[i] # "(" \/ at = {} THEN 0
        ELSE FirstChar(s, (CHOOSE k \in at : \A j \in at : k <= j) + Len(lit),
                       ")")

\* \{.*?\} and \[.*?\]
Bracketed(s, i, open, close) ==
    IF s[i] = open THEN FirstChar(s, i + 1, close) ELSE 0

\* the end of the match of the marker expression at s[i], or 0: the first
\* alternative that matches, in the order the expression lists them
MarkerEnd(s, i) ==
    LET alts == << OpenLiteral(s, i, <<"(", "l", "i", "v", "e">>),
                   OpenLiteral(s, i, <<"(", "r", "e", "m", "a", "s", "t", "e", "r">>),
                   InnerLiteral(s, i, <<"m", "i", "x">>),
                   InnerLiteral(s, i, <<"v", "e", "r", "s", "i", "o", "n">>),
                   OpenLiteral(s, i, <<"(", "f", "r", "o", "m">>),
                   Bracketed(s, i, "{", "}"),
                   Bracketed(s, i, "[", "]") >>
        hit  == {a \in DOMAIN alts : alts[a] # 0}
    IN  IF hit = {} THEN 0
        ELSE alts[CHOOSE a \in hit : \A b \in hit : a <= b]

RECURSIVE StripMarkers(_)
\* re.sub(markers, '', name, flags=re.IGNORECASE): every leftmost match
StripMarkers(s) ==
    LET at == {i \in 1..Len(s) : MarkerEnd(s, i) # 0}
    IN  IF at = {} THEN s
        ELSE LET i == CHOOSE x \in at : \A y \in at : x <= y
             IN  SubSeq(s, 1, i - 1)
                   \o StripMarkers(SubSeq(s, MarkerEnd(s, i) + 1, Len(s)))

RECURSIVE CollapseSpaces(_)
\* a faulty clean-up, to try C24 against: re.sub(r'\s{2,}', ' ', name), which
\* leaves the dashes and the underscores
CollapseSpaces(s) ==
    IF s = << >> THEN << >>
    ELSE LET r == RunFrom(s, 1, Whitespace)
         IN  IF r >= 2
             THEN <<" ">> \o CollapseSpaces(SubSeq(s, r + 1, Len(s)))
             ELSE <<s[1]>> \o CollapseSpaces(Tail(s))

\* [-_\s]
Separators == {"-", "_"} \cup Whitespace

RECURSIVE CollapseSeparators(_)
\* re.sub(r'[-_\s]{2,}', ' ', name): a run of two or more becomes one space
CollapseSeparators(s) ==
    IF s = << >> THEN << >>
    ELSE LET r == RunFrom(s, 1, Separators)
         IN  IF r >= 2
             THEN <<" ">> \o CollapseSeparators(SubSeq(s, r + 1, Len(s)))
             ELSE <<s[1]>> \o CollapseSeparators(Tail(s))

\* a faulty normalization, to try C14 against: the markers are kept
normalize_title_with_markers(name) ==
    Lower(Strip(CollapseSeparators(StripTrackPrefix(name))))

\* normalize_title on a base name without its extension
normalize_title(name) ==
    Lower(Strip(CollapseSeparators(StripMarkers(StripTrackPrefix(name)))))

\* f"{artist.lower()} - {title.lower()}"
TagKey(artist, title) == Lower(artist) \o <<" ", "-", " ">> \o Lower(title)


(***************************************************************************)
(* Paths and the disk.                                                     *)
(*                                                                         *)
(* The disk is a function from the paths of the files that exist to their  *)
(* records: id tells one file's content from another's, size is            *)
(* os.path.getsize; readable tells whether mutagen can open the file,      *)
(* artist and title are the texts of its tags (<< >> when it has none) and *)
(* bitrate is the bitrate of its audio in bits per second.  dirs is the    *)
(* set of directories that exist, locked the set of directories whose      *)
(* entries cannot be removed or renamed (permission denied).               *)
(***************************************************************************)
ExtFlac == <<".", "f", "l", "a", "c">>

ExtWav == <<".", "w", "a", "v">>

ExtAiff == <<".", "a", "i", "f", "f">>

ExtAlac == <<".", "a", "l", "a", "c">>

ExtM4a == <<".", "m", "4", "a">>

ExtMp3 == <<".", "m", "p", "3">>

ExtWma == <<".", "w", "m", "a">>

ExtTxt == <<".", "t", "x", "t">>

\* FORMAT_PRIORITY, and DEFAULT_FORMAT_PRIORITY of the GUI
FORMAT_PRIORITY ==
    (ExtFlac :> 4) @@ (ExtWav :> 3) @@ (ExtAiff :> 3) @@ (ExtAlac :> 3)
      @@ (ExtM4a :> 2) @@ (ExtMp3 :> 1) @@ (ExtWma :> 0)

\* dict.get(key, default)
Get(table, key, default) ==
    IF key \in DOMAIN table THEN table[key] ELSE default

DirA == <<"A">>

DirAS == <<"A", "/", "S">>

DirAT == <<"A", "/", "T">>

DirD == <<"D">>

\* os.path.join(dir, name + ext)
Path(dir, name, ext) == [dir |-> dir, name |-> name, ext |-> ext]

\* os.path.basename
BaseName(p) == p.name \o p.ext

\* the path as the string the code holds
PathString(p) == p.dir \o <<"/">> \o BaseName(p)

\* directory d is root or lies below it
IsUnder(d, root) ==
    \/ d = root
    \/ /\ Len(d) > Len(root)
       /\ SubSeq(d, 1, Len(root) + 1) = root \o <<"/">>

\* the order of strings by code points
LexLess(s, t) ==
    \/ Len(s) < Len(t) /\ SubSeq(t, 1, Len(s)) = s
    \/ \E i \in 1..Len(s) :
          /\ i <= Len(t)
          /\ SubSeq(s, 1, i - 1) = SubSeq(t, 1, i - 1)
          /\ Ord(s[i]) < Ord(t[i])

\* the order in which os.walk meets two files: a directory before the
\* directories below it, the entries of one directory by name (the order
\* of the entries is the file system's; the properties speak of the order
\* of discovery, whichever it is)
WalkBefore(p, q) ==
    \/ LexLess(p.dir, q.dir)
    \/ p.dir = q.dir /\ LexLess(BaseName(p), BaseName(q))

\* a set of paths as the sequence in that order
InWalkOrder(ps) ==
    LET before == Tabulated([p \in ps |->
                                Cardinality({q \in ps : WalkBefore(q, p)})])
    IN  AsList([n \in 1..Cardinality(ps) |->
                   CHOOSE p \in ps : before[p] = n - 1])

\* the files os.walk(root) yields, in order
Walk(d, root) == InWalkOrder({p \in DOMAIN d : IsUnder(p.dir, root)})

\* file.lower().endswith(tuple(FORMAT_PRIORITY.keys()))
IsMusicFile(p, table) ==
    \E e \in DOMAIN table : EndsWith(Lower(BaseName(p)), e)

RECURSIVE CollectFiles(_, _)
\* the collection loop of find_duplicates: every root in turn
CollectFiles(d, directories) ==
    IF directories = << >> THEN << >>
    ELSE SelectSeq(Walk(d, Head(directories)),
                   LAMBDA p : IsMusicFile(p, FORMAT_PRIORITY))
           \o CollectFiles(d, Tail(directories))

\* the extensions whose tags MusicDedupeApp.normalize_title reads
TagExts == {ExtMp3, ExtFlac, ExtM4a}

\* the try block of MusicDedupeApp.normalize_title reaches a return: the
\* extension is one it reads, mutagen opens the file without raising, and
\* artist and title are both there and not empty
HasTags(d, p) ==
    /\ Lower(p.ext) \in TagExts
    /\ p \in DOMAIN d
    /\ d[p].readable
    /\ d[p].artist # << >>
    /\ d[p].title # << >>

\* a faulty key, to try C15 against: a file whose tags cannot be read gets
\* the key of empty tags
gui_normalize_title_no_fallback(d, p, mutagen, use_id3_tags) ==
    IF mutagen /\ use_id3_tags /\ Lower(p.ext) \in TagExts
    THEN IF HasTags(d, p) THEN TagKey(d[p].artist, d[p].title)
         ELSE TagKey(<< >>, << >>)
    ELSE normalize_title(p.name)

\* MusicDedupeApp.normalize_title: mutagen is HAS_MUTAGEN, use_id3_tags
\* what the check box holds at the call
gui_normalize_title(d, p, mutagen, use_id3_tags) ==
    IF mutagen /\ use_id3_tags /\ HasTags(d, p)
    THEN TagKey(d[p].artist, d[p].title)
    ELSE normalize_title(p.name)

(***************************************************************************)
(* Dictionaries keep insertion order: a sequence of [key, val].            *)
(***************************************************************************)
HasKey(dict, k) == \E i \in DOMAIN dict : dict[i].key = k

Lookup(dict, k) == dict[CHOOSE i \in DOMAIN dict : dict[i].key = k].val

\* dict[k] = v
Put(dict, k, v) ==
    IF HasKey(dict, k)
    THEN [i \in DOMAIN dict |->
             IF dict[i].key = k THEN [key |-> k, val |-> v] ELSE dict[i]]
    ELSE Append(dict, [key |-> k, val |-> v])

\* the n-th smallest member of a set of numbers
NthOf(S, n) == CHOOSE i \in S : Cardinality({j \in S : j <= i}) = n

\* the dictionary that the assignments dict[e.key] = e.val, made in the order
\* of the sequence, leave: a key stands where it was first assigned, with
\* the value it was last assigned
FromAssignments(entries) ==
    LET firsts == {i \in DOMAIN entries :
                      \A j \in 1..(i - 1) : entries[j].key # entries[i].key}
    IN  [n \in 1..Cardinality(firsts) |->
            LET k     == entries[NthOf(firsts, n)].key
                same  == {i \in DOMAIN entries : entries[i].key = k}
            IN  [key |-> k, val |-> entries[NthOf(same, Cardinality(same))].val]]

\* the dictionary that dict[keys[i]].append(files[i]), file by file, leaves
GroupBy(files, keys) ==
    LET firsts == {i \in DOMAIN files :
                      \A j \in 1..(i - 1) : keys[j] # keys[i]}
    IN  [n \in 1..Cardinality(firsts) |->
            LET k    == keys[NthOf(firsts, n)]
                same == {i \in DOMAIN files : keys[i] = k}
            IN  [key |-> k,
                 val |-> [m \in 1..Cardinality(same) |-> files[NthOf(same, m)]]]]

\* normalize_title(file_path) of every file
NameKeys(files) ==
    AsList([i \in DOMAIN files |-> normalize_title(files[i].name)])

\* songs[normalize_title(file_path)].append(file_path), file by file
GroupByName(files) == GroupBy(files, NameKeys(files))

\* a faulty filter, to try C3 against: if len(files) > 0
FilterKeepingSingles(songs) == SelectSeq(songs, LAMBDA e : Len(e.val) > 0)

\* {name: files for name, files in songs.items() if len(files) > 1}
FilterDuplicates(songs) == SelectSeq(songs, LAMBDA e : Len(e.val) > 1)

\* a faulty grouping, to try C16 against: below a threshold of 1.0 two
\* names match when they begin alike
GroupSongsFuzzy(files, keys, similarity_threshold) ==
    FilterDuplicates(
        GroupBy(files,
                AsList([i \in DOMAIN keys |->
                           IF similarity_threshold < 100
                           THEN SubSeq(keys[i], 1, 1)
                           ELSE keys[i]])))

\* the grouping of find_duplicates and of run_scan: the files by their
\* keys, the groups of one file dropped.  Both are handed a similarity
\* threshold; neither reads it.
GroupSongs(files, keys, similarity_threshold) ==
    FilterDuplicates(GroupBy(files, keys))

(***************************************************************************)
(* Scoring and resolution.                                                 *)
(***************************************************************************)
\* os.path.getsize raises for a file that is gone
CanStat(d, p) == p \in DOMAIN d

\* a faulty score, to try C13 against: the size is left out
score_without_size(d, p) ==
    Get(FORMAT_PRIORITY, Lower(p.ext), 0) * 1000 * 1024

\* get_file_quality_score, times 1024
get_file_quality_score(d, p) ==
    Get(FORMAT_PRIORITY, Lower(p.ext), 0) * 1000 * 1024 + d[p].size

\* a faulty sort, to try C4 against: an ascending sort that is then
\* reversed, which puts the later of two equal scores first
SortAscendingReversed(scored) ==
    LET place(i) ==
            Cardinality({j \in DOMAIN scored : scored[j].score > scored[i].score})
              + Cardinality({j \in (i + 1)..Len(scored) :
                                scored[j].score = scored[i].score})
              + 1
    IN  [n \in DOMAIN scored |->
            scored[CHOOSE i \in DOMAIN scored : place(i) = n]]

\* scored_files.sort(key=lambda x: x[1], reverse=True): a stable sort, so
\* an element stands behind those that score more and behind those before
\* it that score the same
SortByScore(scored) ==
    LET place(i) ==
            Cardinality({j \in DOMAIN scored : scored[j].score > scored[i].score})
              + Cardinality({j \in 1..(i - 1) :
                                scored[j].score = scored[i].score})
              + 1
    IN  [n \in DOMAIN scored |->
            scored[CHOOSE i \in DOMAIN scored : place(i) = n]]

\* what mutagen adds to the score of an mp3 file: audio.info.bitrate / 1000,
\* times 1024 (the bitrates of the model are multiples of 125, which keeps
\* the quotient whole); nothing when the file cannot be opened or gives no
\* bitrate
BitrateTerm(d, p) ==
    IF d[p].readable /\ d[p].bitrate # 0
    THEN (d[p].bitrate * 1024) \div 1000
    ELSE 0

\* a faulty score, to try C12 against: the bitrate is added whatever the
\* extension
gui_score_any_bitrate(d, p, priority, mutagen) ==
    Get(priority, Lower(p.ext), 0) * 1000 * 1024 + d[p].size
      + IF mutagen THEN BitrateTerm(d, p) ELSE 0

\* MusicDedupeApp.get_file_quality_score, times 1024: priority is what the
\* controls of the format priorities hold at the call, mutagen is
\* HAS_MUTAGEN
gui_get_file_quality_score(d, p, priority, mutagen) ==
    Get(priority, Lower(p.ext), 0) * 1000 * 1024 + d[p].size
      + IF mutagen /\ Lower(p.ext) = ExtMp3 THEN BitrateTerm(d, p) ELSE 0

\* a faulty result, to try C20 against: the scores of the duplicates are
\* left out
ResolveKeeperScoreOnly(scored) ==
    LET sorted == SortByScore(scored)
    IN  [keeper     |-> sorted[1].f,
         duplicates |-> [i \in 1..(Len(sorted) - 1) |-> sorted[i + 1].f],
         scores     |-> [f \in {sorted[1].f} |-> sorted[1].score]]

\* the scored files of one group, sorted and resolved: keeper, duplicates,
\* and {f: score for f, score in scored_files}, where a path that stands
\* in the list more than once keeps the score of its last entry
Resolve(scored) ==
    LET sorted == SortByScore(scored)
        last(f) == CHOOSE i \in DOMAIN sorted :
                       /\ sorted[i].f = f
                       /\ \A j \in (i + 1)..Len(sorted) : sorted[j].f # f
    IN  [keeper     |-> sorted[1].f,
         duplicates |-> [i \in 1..(Len(sorted) - 1) |-> sorted[i + 1].f],
         scores     |-> [f \in {sorted[i].f : i \in DOMAIN sorted} |->
                            sorted[last(f)].score]]

\* one group of the result of find_duplicates: every file scored, then
\* resolved
ResolveGroup(d, files) ==
    Resolve(AsList([i \in DOMAIN files |->
                       [f |-> files[i],
                        score |-> get_file_quality_score(d, files[i])]]))

\* the scoring loop of find_duplicates: resolved_dupes[name] = ..., group
\* by group
ResolveAll(d, groups) ==
    FromAssignments([i \in DOMAIN groups |->
                        [key |-> groups[i].key,
                         val |-> ResolveGroup(d, groups[i].val)]])

\* every file of every group can be scored
CanScoreAll(d, groups) ==
    \A i \in DOMAIN groups : \A j \in DOMAIN groups[i].val :
        CanStat(d, groups[i].val[j])


(***************************************************************************)
(* The action pass: one duplicate at a time.                               *)
(***************************************************************************)
HexDigits ==
    << "0", "1", "2", "3", "4", "5", "6", "7", "8", "9",
       "a", "b", "c", "d", "e", "f" >>

RECURSIVE Digest(_)
\* a digest of a string: what the model keeps of MD5 is that it is a
\* function of the whole string, and that two strings may collide
Digest(s) ==
    IF s = << >> THEN 7
    ELSE (Digest(SubSeq(s, 1, Len(s) - 1)) * 31 + Ord(s[Len(s)])) % 16777216

\* hashlib.md5(dupe.encode()).hexdigest()[:6]
Md5Hex6(s) ==
    LET h == Digest(s)
    IN  << HexDigits[((h \div 1048576) % 16) + 1],
           HexDigits[((h \div 65536) % 16) + 1],
           HexDigits[((h \div 4096) % 16) + 1],
           HexDigits[((h \div 256) % 16) + 1],
           HexDigits[((h \div 16) % 16) + 1],
           HexDigits[(h % 16) + 1] >>

\* the identity of the file at path p, 0 when there is none
IdAt(d, p) == IF p \in DOMAIN d THEN d[p].id ELSE 0

\* a faulty target, to try C9 against: the base name under move_dir,
\* whatever stands there
MoveTargetPlain(d, dupe, move_dir) == Path(move_dir, dupe.name, dupe.ext)

\* the target of a move: the base name under move_dir, or, when a file of
\* that name exists there, the base name with the digest of the source path
MoveTarget(d, dupe, move_dir) ==
    IF Path(move_dir, dupe.name, dupe.ext) \in DOMAIN d
    THEN Path(move_dir, dupe.name \o <<"_">> \o Md5Hex6(PathString(dupe)),
              dupe.ext)
    ELSE Path(move_dir, dupe.name, dupe.ext)

\* shutil.move(dupe, target) and os.remove(dupe) raise when the file is
\* gone, when its directory is locked, or when the target directory is
\* missing or locked
ActionFails(d, ds, lk, dupe, move_dir) ==
    \/ dupe \notin DOMAIN d
    \/ dupe.dir \in lk
    \/ move_dir # << >> /\ (move_dir \notin ds \/ move_dir \in lk)

\* the disk after shutil.move(dupe, target): a rename, which replaces a file
\* at the target
Moved(d, dupe, target) ==
    [q \in (DOMAIN d \ {dupe}) \cup {target} |->
        IF q = target THEN d[dupe] ELSE d[q]]

\* the disk after os.remove(dupe)
Removed(d, dupe) == [q \in DOMAIN d \ {dupe} |-> d[q]]

\* one line of the log: what was done to src.  src_before and target_after
\* record the file that stood at src before the step and the one at target
\* after it; collided, plain_before and plain_after what stood at
\* move_dir/basename(src) around the step.
LogEntry(op, src, target, d, after, move_dir) ==
    [op           |-> op,
     src          |-> src,
     target       |-> target,
     src_before   |-> IdAt(d, src),
     target_after |-> IdAt(after, target),
     collided     |-> move_dir # << >>
                        /\ Path(move_dir, src.name, src.ext) \in DOMAIN d,
     plain_before |-> IF move_dir = << >> THEN 0
                      ELSE IdAt(d, Path(move_dir, src.name, src.ext)),
     plain_after  |-> IF move_dir = << >> THEN 0
                      ELSE IdAt(after, Path(move_dir, src.name, src.ext))]

\* the try block of the action loop on one duplicate; move_dir is << >> for
\* a deletion.  The result is the disk and the line logged.
ActOnFile(d, ds, lk, dupe, move_dir) ==
    IF ActionFails(d, ds, lk, dupe, move_dir)
    THEN [disk  |-> d,
          entry |-> LogEntry("error", dupe, dupe, d, d, move_dir)]
    ELSE IF move_dir # << >>
    THEN LET target == MoveTarget(d, dupe, move_dir)
             after  == Moved(d, dupe, target)
         IN  [disk  |-> after,
              entry |-> LogEntry("moved", dupe, target, d, after, move_dir)]
    ELSE [disk  |-> Removed(d, dupe),
          entry |-> LogEntry("deleted", dupe, dupe, d, Removed(d, dupe),
                             move_dir)]

\* the dry-run branch of the loop: a line, and nothing else
DryRunEntry(d, dupe, move_dir) ==
    LogEntry(IF move_dir # << >> THEN "would_move" ELSE "would_delete",
             dupe, dupe, d, d, move_dir)

RECURSIVE AllDuplicates(_)
\* the duplicates of every group, in the order the loops visit them
AllDuplicates(dups) ==
    IF dups = << >> THEN << >>
    ELSE dups[1].val.duplicates \o AllDuplicates(Tail(dups))

RECURSIVE ProcessAllUntilError(_, _, _, _, _, _)
\* a faulty loop, to try C7 against: the try around the whole loop, so that
\* the first failure ends the pass
ProcessAllUntilError(d, ds, lk, todo, dry_run, move_dir) ==
    IF todo = << >> THEN [disk |-> d, log |-> << >>]
    ELSE LET done == ProcessAllUntilError(d, ds, lk,
                                          SubSeq(todo, 1, Len(todo) - 1),
                                          dry_run, move_dir)
             dupe == todo[Len(todo)]
         IN  IF \E i \in DOMAIN done.log : done.log[i].op = "error"
             THEN done
             ELSE IF dry_run
             THEN [disk |-> done.disk,
                   log  |-> Append(done.log,
                                   DryRunEntry(done.disk, dupe, move_dir))]
             ELSE LET r == ActOnFile(done.disk, ds, lk, dupe, move_dir)
                  IN  [disk |-> r.disk, log |-> Append(done.log, r.entry)]

RECURSIVE ProcessAll(_, _, _, _, _, _)
\* the loop of process_duplicates over the duplicates todo
ProcessAll(d, ds, lk, todo, dry_run, move_dir) ==
    IF todo = << >> THEN [disk |-> d, log |-> << >>]
    ELSE LET done == ProcessAll(d, ds, lk, SubSeq(todo, 1, Len(todo) - 1),
                                dry_run, move_dir)
             dupe == todo[Len(todo)]
         IN  IF dry_run
             THEN [disk |-> done.disk,
                   log  |-> Append(done.log,
                                   DryRunEntry(done.disk, dupe, move_dir))]
             ELSE LET r == ActOnFile(done.disk, ds, lk, dupe, move_dir)
                  IN  [disk |-> r.disk, log |-> Append(done.log, r.entry)]

\* os.makedirs(move_dir) at the head of process_duplicates
MakeMoveDir(ds, move_dir) ==
    IF move_dir # << >> /\ move_dir \notin ds THEN ds \cup {move_dir} ELSE ds


(***************************************************************************)
(* Exact-size matching of the GUI scan.                                    *)
(***************************************************************************)
RECURSIVE Decimal(_)
\* str(size) of a size >= 0
Decimal(n) ==
    IF n < 10 THEN <<HexDigits[n + 1]>>
    ELSE Decimal(n \div 10) \o <<HexDigits[(n % 10) + 1]>>

\* a faulty key, to try C5 against: f"{name} (bytes)"
SizeKeyWithoutSize(name, size) ==
    name \o <<" ", "(", "b", "y", "t", "e", "s", ")">>

\* f"{name} ({size} bytes)"
SizeKey(name, size) ==
    name \o <<" ", "(">> \o Decimal(size)
         \o <<" ", "b", "y", "t", "e", "s", ")">>

\* what the exact-size filter assigns for one group: for every size, in
\* the order the sizes appear, the key and the files of that size, when
\* there are more than one
SizeGroups(name, files, sizes) ==
    LET by_size == GroupBy(files,
                           AsList([i \in DOMAIN files |-> sizes[files[i]]]))
    IN  SelectSeq([i \in DOMAIN by_size |->
                      [key |-> SizeKey(name, by_size[i].key),
                       val |-> by_size[i].val]],
                  LAMBDA e : Len(e.val) > 1)

RECURSIVE Flatten(_)
Flatten(seqs) ==
    IF seqs = << >> THEN << >> ELSE Head(seqs) \o Flatten(Tail(seqs))

\* the exact-size filter of run_scan: filtered_duplicates[key] = size_files,
\* group by group and size by size
PartitionBySize(groups, sizes) ==
    FromAssignments(Flatten([i \in DOMAIN groups |->
                               SizeGroups(groups[i].key, groups[i].val, sizes)]))

(***************************************************************************)
(* The state.                                                              *)
(***************************************************************************)
VARIABLES
    prog,        \* which program runs: "cli", "gui", "norm" or "conf"
    pc,          \* where the command line tool stands
    disk,        \* the files on disk
    dirs,        \* the directories on disk
    locked,      \* the directories whose entries cannot be removed
    vanished,    \* how many files have vanished under a scan
    roots,       \* the directories the command line tool was given
    all_files,   \* all_files of the latest scan, in discovery order
    file_sizes,  \* file_sizes of the latest GUI scan
    candidates,  \* the groups the latest scan set out to score
    scan_error,  \* the latest scan hit an exception
    duplicates,  \* the result of find_duplicates; self.duplicates
    cfg,         \* the GUI's controls
    is_running,  \* self.is_running
    threads,     \* the GUI's worker threads that have not finished
    started,     \* how many workers the GUI has started
    log,         \* the lines of the latest action pass
    pass,        \* the latest action pass: its arguments, the disk before it,
                 \* what the user confirmed
    nname,       \* SpecNorm: the base name
    stripped,    \* SpecNorm: nname without its track number
    once,        \* SpecNorm: normalize_title(nname)
    twice,       \* SpecNorm: normalize_title(once)
    has_mutagen, \* HAS_MUTAGEN: the import of mutagen succeeded
    edits,       \* how many times the user has changed a control
    snap,        \* the latest GUI scan: the controls when it was started,
                 \* and what it has read from them since
    cfg_file,    \* the configuration file
    conf         \* SpecConf: how the latest save_config ended, the controls
                 \* it was given, which instance of the application runs

vars ==
    << prog, pc, disk, dirs, locked, vanished, roots, all_files, file_sizes,
       candidates, scan_error, duplicates, cfg, is_running, threads, started,
       log, pass, nname, stripped, once, twice, has_mutagen, edits, snap,
       cfg_file, conf >>

fsVars == << disk, dirs, locked >>

scanVars == << all_files, file_sizes, candidates, scan_error >>

guiVars == << cfg, is_running, threads, started >>

normVars == << nname, stripped, once, twice >>

confVars == << has_mutagen, cfg_file, conf >>

NoSizes == [p \in {} |-> 0]

NoPass ==
    [state |-> "none", disk |-> NoSizes, dirs |-> {}, todo |-> << >>,
     dry_run |-> FALSE, move_dir |-> << >>,
     confirmed |-> [action |-> "", dest |-> << >>]]

NoSnap ==
    [state |-> "none", cfg |-> << >>, source_dir |-> << >>, flags |-> << >>,
     tables |-> << >>]

NoFile == [kind |-> "absent", fields |-> << >>]

NoConf == [state |-> "none", before |-> << >>, instance |-> 1]

\* the files a disk may hold at the start: two songs, "x" in four copies
\* and "y" in two, a file of the same name in the directory D, a text file
Candidates ==
    << Path(DirA, <<"x">>, ExtMp3),
       Path(DirAS, <<"x">>, ExtMp3),
       Path(DirAS, <<"x">>, ExtWma),
       Path(DirAT, <<"1", " ", "x">>, ExtFlac),
       Path(DirA, <<"y">>, ExtMp3),
       Path(DirAT, <<"y">>, ExtMp3),
       Path(DirD, <<"x">>, ExtMp3),
       Path(DirA, <<"x">>, ExtTxt) >>

\* what mutagen finds in each of them: whether it opens at all, the artist
\* and the title of its tags, the bitrate of its audio
Contents ==
    << [readable |-> TRUE, artist |-> <<"a">>, title |-> <<"x">>,
        bitrate |-> 128000],
       [readable |-> FALSE, artist |-> << >>, title |-> << >>, bitrate |-> 0],
       [readable |-> FALSE, artist |-> << >>, title |-> << >>, bitrate |-> 0],
       [readable |-> TRUE, artist |-> <<"A">>, title |-> <<"x">>,
        bitrate |-> 900000],
       [readable |-> TRUE, artist |-> << >>, title |-> <<"y">>,
        bitrate |-> 320000],
       [readable |-> TRUE, artist |-> << >>, title |-> << >>,
        bitrate |-> 128000],
       [readable |-> TRUE, artist |-> <<"a">>, title |-> <<"x">>,
        bitrate |-> 128000],
       [readable |-> FALSE, artist |-> << >>, title |-> << >>, bitrate |-> 0] >>

\* the record of a file on disk
FileRecord(id, size, content) ==
    [id |-> id, size |-> size, readable |-> content.readable,
     artist |-> content.artist, title |-> content.title,
     bitrate |-> content.bitrate]

\* the disk that holds those of the files whose size is not 0
FilesOnDisk(files, contents, sz) ==
    [p \in {files[i] : i \in {j \in DOMAIN files : sz[j] # 0}} |->
        LET i == CHOOSE j \in DOMAIN files : files[j] = p
        IN  FileRecord(i, sz[i], contents[i])]

\* the sizes each of them may have; 0 stands for a file that is not there
SizeChoices ==
    << {1024}, {0, 1024, 2048}, {0, 2048}, {0, 1024}, {0, 1024},
       {1024}, {0, 1024}, {512} >>

\* the sizes they may have where the GUI runs with mutagen
LiveSizeChoices ==
    << {1024}, {1024}, {0}, {1024}, {1024}, {0, 1024}, {0, 1024}, {0} >>

\* the files of the two scenarios of the specification: "01 - Song.mp3",
\* "Song (Remastered).flac", "Track.wma", "Track.mp3"
ScenarioFiles ==
    << Path(DirA, <<"0", "1", " ", "-", " ", "S", "o", "n", "g">>, ExtMp3),
       Path(DirA, <<"S", "o", "n", "g", " ", "(", "R", "e", "m", "a", "s",
                    "t", "e", "r", "e", "d", ")">>, ExtFlac),
       Path(DirA, <<"T", "r", "a", "c", "k">>, ExtWma),
       Path(DirA, <<"T", "r", "a", "c", "k">>, ExtMp3) >>

\* their sizes: 5000 KiB, 3000 KiB, 50 KiB, 2000 KiB
ScenarioSizes == << 5000 * 1024, 3000 * 1024, 50 * 1024, 2000 * 1024 >>

ScenarioContents ==
    [i \in DOMAIN ScenarioFiles |->
        [readable |-> TRUE, artist |-> << >>, title |-> << >>, bitrate |-> 0]]

RootChoices == {DirA, DirAS, DirAT}

\* the lists of directories given on the command line
RootLists == UNION {[1..n -> RootChoices] : n \in 1..MaxRoots}

\* --threshold, and the slider of the GUI, in hundredths
Thresholds == {85, 100}

\* --move, or the destination field: none (<< >>), a directory apart from
\* the scanned ones, a directory among them
MoveDirChoices == {<< >>, DirD, DirAS}

\* DEFAULT_CONFIG
DEFAULT_CONFIG ==
    [source_dir |-> << >>, dest_dir |-> << >>, threshold |-> 85,
     action |-> "move", verbose |-> TRUE, use_id3_tags |-> TRUE,
     exact_size_match |-> FALSE, format_priority |-> FORMAT_PRIORITY]

\* the format priorities after the user has raised that of mp3
RaisedMp3 == [FORMAT_PRIORITY EXCEPT ![ExtMp3] = 5]

\* the controls once __init__ is through, where mutagen is missing: the
\* configurations load_config may leave in them, the check box of the tags
\* cleared by create_ui
CfgChoices ==
    {c \in [source_dir : {DirA}, dest_dir : {DirD, DirAS},
            threshold : Thresholds, action : {"move", "delete"},
            verbose : {TRUE}, use_id3_tags : {FALSE},
            exact_size_match : BOOLEAN,
            format_priority : {FORMAT_PRIORITY}] :
        /\ c.action = "delete" => c.dest_dir = DirD
        /\ c.threshold # 85 => (c.dest_dir = DirD /\ c.action = "move")}

\* the controls once __init__ is through, where mutagen is there or not
LiveCfgChoices(mutagen) ==
    {c \in [source_dir : {DirA}, dest_dir : {DirD},
            threshold : {85}, action : {"move", "delete"},
            verbose : {TRUE}, use_id3_tags : BOOLEAN,
            exact_size_match : BOOLEAN,
            format_priority : {FORMAT_PRIORITY, RaisedMp3}] :
        /\ c.use_id3_tags => mutagen
        /\ c.format_priority # FORMAT_PRIORITY =>
              (c.action = "move" /\ ~c.exact_size_match)}

\* the controls of a run of the command line tool, which has none
DefaultCfg ==
    [DEFAULT_CONFIG EXCEPT !.source_dir = DirA, !.dest_dir = DirD]

\* the disk at the start
InitDisk ==
    /\ \/ \E sz \in [DOMAIN Candidates -> {0, 512, 1024, 2048}] :
             /\ \A i \in DOMAIN Candidates : sz[i] \in SizeChoices[i]
             /\ disk = FilesOnDisk(Candidates, Contents, sz)
       \/ disk = FilesOnDisk(ScenarioFiles, ScenarioContents, ScenarioSizes)
    /\ \E d \in SUBSET {DirD} :
          /\ (Path(DirD, <<"x">>, ExtMp3) \in DOMAIN disk => DirD \in d)
          /\ dirs = {DirA, DirAS, DirAT} \cup d
    /\ locked \in {{}, {DirAS}}

\* the disk at the start, where the GUI runs with mutagen
InitLiveDisk ==
    /\ \E sz \in [DOMAIN Candidates -> {0, 512, 1024, 2048}] :
          /\ \A i \in DOMAIN Candidates : sz[i] \in LiveSizeChoices[i]
          /\ disk = FilesOnDisk(Candidates, Contents, sz)
    /\ dirs = {DirA, DirAS, DirAT, DirD}
    /\ locked = {}

\* what Init and InitLive share
InitRest ==
    /\ pc = "start"
    /\ vanished = 0
    /\ roots = << >>
    /\ all_files = << >>
    /\ file_sizes = NoSizes
    /\ candidates = << >>
    /\ scan_error = FALSE
    /\ duplicates = << >>
    /\ is_running = FALSE
    /\ threads = << >>
    /\ started = 0
    /\ log = << >>
    /\ pass = NoPass
    /\ nname = << >>
    /\ stripped = << >>
    /\ once = << >>
    /\ twice = << >>
    /\ edits = 0
    /\ snap = NoSnap
    /\ cfg_file = NoFile
    /\ conf = NoConf

Init ==
    /\ InitDisk
    /\ prog \in {"cli", "gui"}
    /\ has_mutagen = FALSE
    /\ IF prog = "gui" THEN cfg \in CfgChoices ELSE cfg = DefaultCfg
    /\ InitRest

InitLive ==
    /\ InitLiveDisk
    /\ prog \in {"cli", "gui"}
    /\ has_mutagen \in BOOLEAN
    /\ prog = "cli" => ~has_mutagen
    /\ IF prog = "gui" THEN cfg \in LiveCfgChoices(has_mutagen)
       ELSE cfg = DefaultCfg
    /\ InitRest

(***************************************************************************)
(* The command line tool: main calls find_duplicates, then, when there are *)
(* duplicates, process_duplicates.                                         *)
(***************************************************************************)
\* find_duplicates up to its scoring loop: all_files, songs, and the groups
\* of more than one file
CliCollect(directories, similarity_threshold) ==
    /\ prog = "cli"
    /\ pc = "start"
    /\ \A i \in DOMAIN directories : directories[i] \in dirs
    /\ roots' = directories
    /\ LET found == CollectFiles(disk, directories)
       IN  /\ all_files' = found
           /\ candidates' = GroupSongs(found, NameKeys(found),
                                       similarity_threshold)
    /\ pc' = "collected"
    /\ UNCHANGED << prog, fsVars, vanished, file_sizes, scan_error,
                    duplicates, guiVars, log, pass, normVars, confVars,
                    edits, snap >>

\* find_duplicates, the scoring loop: score, sort, resolve.  An
\* os.path.getsize that raises leaves find_duplicates, and main, by the
\* exception.
CliResolve ==
    /\ prog = "cli"
    /\ pc = "collected"
    /\ IF CanScoreAll(disk, candidates)
       THEN /\ duplicates' = ResolveAll(disk, candidates)
            /\ scan_error' = FALSE
            /\ pc' = "found"
       ELSE /\ duplicates' = duplicates
            /\ scan_error' = TRUE
            /\ pc' = "crashed"
    /\ UNCHANGED << prog, fsVars, vanished, roots, all_files, file_sizes,
                    candidates, guiVars, log, pass, normVars, confVars,
                    edits, snap >>

\* process_duplicates(duplicates, dry_run, move_dir), called by main when
\* there are duplicates
CliProcess(dry_run, move_dir) ==
    /\ prog = "cli"
    /\ pc = "found"
    /\ duplicates # << >>
    /\ LET ds == MakeMoveDir(dirs, move_dir)
           r  == ProcessAll(disk, ds, locked, AllDuplicates(duplicates),
                            dry_run, move_dir)
       IN  /\ dirs' = ds
           /\ disk' = r.disk
           /\ log' = r.log
    /\ pass' = [state |-> "done", disk |-> disk, dirs |-> dirs,
                todo |-> AllDuplicates(duplicates), dry_run |-> dry_run,
                move_dir |-> move_dir, confirmed |-> pass.confirmed]
    /\ pc' = "done"
    /\ UNCHANGED << prog, locked, vanished, roots, scanVars, duplicates,
                    guiVars, normVars, confVars, edits, snap >>

\* main returns without an action pass: nothing found, or the user said no
CliQuit ==
    /\ prog = "cli"
    /\ pc = "found"
    /\ pc' = "quit"
    /\ UNCHANGED << prog, fsVars, vanished, roots, scanVars, duplicates,
                    guiVars, log, pass, normVars, confVars, edits, snap >>


(***************************************************************************)
(* The environment: a file that a scan has collected, and has or will have *)
(* in a group, is removed by someone else while the scan is under way.     *)
(* (Removing it before the groups are made is no different from removing   *)
(* it before the first group is scored.)                                   *)
(***************************************************************************)
ScanUnderWay ==
    \/ prog = "cli" /\ pc = "collected"
    \/ \E i \in DOMAIN threads :
          threads[i].kind = "scan" /\ threads[i].pc = "score"

Vanish(p) ==
    /\ ScanUnderWay
    /\ vanished < MaxVanish
    /\ p \in DOMAIN disk
    /\ \E i \in DOMAIN candidates :
          \E j \in DOMAIN candidates[i].val : candidates[i].val[j] = p
    /\ disk' = Removed(disk, p)
    /\ vanished' = vanished + 1
    /\ UNCHANGED << prog, pc, dirs, locked, roots, scanVars, duplicates,
                    guiVars, log, pass, normVars, confVars, edits, snap >>

(***************************************************************************)
(* The GUI: the handlers of the two buttons run on the Tk thread, one at a *)
(* time and to their end (their dialogs are modal); run_scan and           *)
(* run_processing run on worker threads, step by step.                     *)
(***************************************************************************)
NewThread(kind) ==
    [kind |-> kind, pc |-> "start", source_dir |-> << >>, threshold |-> 0,
     exact |-> FALSE, keys |-> << >>, idx |-> 1, scored |-> << >>,
     action |-> "", dest |-> << >>]

\* the sequence without its i-th element
Without(seq, i) == SubSeq(seq, 1, i - 1) \o SubSeq(seq, i + 1, Len(seq))

\* a faulty guard, to try C10 against: the handlers never refuse
NoOperationInProgress == FALSE

\* if self.is_running: the guard at the head of both handlers
OperationInProgress == is_running

\* start_scan: it returns at once, a message shown and nothing changed,
\* when an operation is in progress or the source is no directory
StartScan ==
    /\ prog = "gui"
    /\ ~OperationInProgress
    /\ cfg.source_dir # << >>
    /\ cfg.source_dir \in dirs
    /\ started < MaxStarts
    /\ duplicates' = << >>
    /\ is_running' = TRUE
    /\ threads' = Append(threads, NewThread("scan"))
    /\ started' = started + 1
    /\ snap' = [state |-> "started", cfg |-> cfg, source_dir |-> << >>,
                flags |-> << >>, tables |-> << >>]
    /\ UNCHANGED << prog, pc, fsVars, vanished, roots, scanVars, cfg, log,
                    pass, normVars, confVars, edits >>

\* run_scan: the controls are read
ScanRead(i) ==
    /\ threads[i].kind = "scan"
    /\ threads[i].pc = "start"
    /\ threads' = [threads EXCEPT ![i].pc = "walk",
                                  ![i].source_dir = cfg.source_dir,
                                  ![i].threshold = cfg.threshold,
                                  ![i].exact = cfg.exact_size_match]
    /\ UNCHANGED << prog, pc, fsVars, vanished, roots, scanVars, duplicates,
                    cfg, is_running, started, log, pass, normVars, confVars,
                    edits, snap >>

\* run_scan: os.walk collects all_files and, for exact-size matching, the
\* size of each
ScanWalk(i) ==
    /\ threads[i].kind = "scan"
    /\ threads[i].pc = "walk"
    /\ LET found == SelectSeq(Walk(disk, threads[i].source_dir),
                              LAMBDA p : IsMusicFile(p, cfg.format_priority))
           sizes == IF threads[i].exact
                    THEN [p \in {found[k] : k \in DOMAIN found} |-> disk[p].size]
                    ELSE NoSizes
       IN  /\ threads' = [threads EXCEPT ![i].pc = "group"]
           /\ all_files' = found
           /\ file_sizes' = sizes
    /\ candidates' = << >>
    /\ scan_error' = FALSE
    /\ snap' = [snap EXCEPT !.state = "walked",
                            !.source_dir = threads[i].source_dir]
    /\ UNCHANGED << prog, pc, fsVars, vanished, roots, duplicates, cfg,
                    is_running, started, log, pass, normVars, confVars,
                    edits >>

\* run_scan: one turn of the grouping loop, self.normalize_title(file_path)
ScanKey(i) ==
    /\ threads[i].kind = "scan"
    /\ threads[i].pc = "group"
    /\ Len(threads[i].keys) < Len(all_files)
    /\ LET file_path == all_files[Len(threads[i].keys) + 1]
           norm_name == gui_normalize_title(disk, file_path, has_mutagen,
                                            cfg.use_id3_tags)
       IN  threads' = [threads EXCEPT ![i].keys = Append(@, norm_name)]
    /\ snap' = [snap EXCEPT !.flags = Append(@, cfg.use_id3_tags)]
    /\ UNCHANGED << prog, pc, fsVars, vanished, roots, scanVars, duplicates,
                    cfg, is_running, started, log, pass, normVars, confVars,
                    edits >>

\* run_scan, the grouping loop done: the groups of one file are dropped
\* and, for exact-size matching, the rest split by size
ScanGroup(i) ==
    /\ threads[i].kind = "scan"
    /\ threads[i].pc = "group"
    /\ Len(threads[i].keys) = Len(all_files)
    /\ LET groups   == GroupSongs(all_files, threads[i].keys,
                                  threads[i].threshold)
           filtered == IF threads[i].exact
                       THEN PartitionBySize(groups, file_sizes)
                       ELSE groups
       IN  /\ threads' = [threads EXCEPT ![i].pc = "score"]
           /\ candidates' = filtered
    /\ UNCHANGED << prog, pc, fsVars, vanished, roots, all_files, file_sizes,
                    scan_error, duplicates, cfg, is_running, started, log,
                    pass, normVars, confVars, edits, snap >>

\* run_scan: one call of self.get_file_quality_score in the scoring loop
\* and, on the last file of a group, the group resolved.  An
\* os.path.getsize that raises is caught by the except of run_scan, which
\* ends the scan.
ScanScore(i) ==
    /\ threads[i].kind = "scan"
    /\ threads[i].pc = "score"
    /\ LET t == threads[i]
       IN  IF t.idx > Len(candidates)
           THEN /\ threads' = [threads EXCEPT ![i].pc = "finally"]
                /\ UNCHANGED << duplicates, scan_error, snap >>
           ELSE LET files == candidates[t.idx].val
                    f     == files[Len(t.scored) + 1]
                IN  IF ~CanStat(disk, f)
                    THEN /\ threads' = [threads EXCEPT ![i].pc = "finally"]
                         /\ scan_error' = TRUE
                         /\ UNCHANGED << duplicates, snap >>
                    ELSE LET scored ==
                                 Append(t.scored,
                                        [f |-> f,
                                         score |-> gui_get_file_quality_score(
                                                       disk, f,
                                                       cfg.format_priority,
                                                       has_mutagen)])
                         IN  /\ IF Len(scored) = Len(files)
                                THEN /\ duplicates' =
                                            Put(duplicates,
                                                candidates[t.idx].key,
                                                Resolve(scored))
                                     /\ threads' =
                                            [threads EXCEPT
                                                ![i].idx = t.idx + 1,
                                                ![i].scored = << >>]
                                ELSE /\ threads' =
                                            [threads EXCEPT
                                                ![i].scored = scored]
                                     /\ UNCHANGED duplicates
                             /\ snap' = [snap EXCEPT !.tables =
                                            Append(@, [f |-> f, table |->
                                                       cfg.format_priority])]
                             /\ UNCHANGED scan_error
    /\ UNCHANGED << prog, pc, fsVars, vanished, roots, all_files, file_sizes,
                    candidates, cfg, is_running, started, log, pass,
                    normVars, confVars, edits >>

\* a faulty end of the workers, to try C23 against: self.is_running = False
\* as the last line of the try block, which an exception skips
WorkerEndsWithoutFinally(i) ==
    /\ threads[i].pc = "finally"
    /\ is_running' = scan_error
    /\ threads' = Without(threads, i)
    /\ UNCHANGED << prog, pc, fsVars, vanished, roots, scanVars, duplicates,
                    cfg, started, log, pass, normVars, confVars, edits,
                    snap >>

\* run_scan and run_processing: finally, self.is_running = False, and the
\* thread ends
WorkerFinally(i) ==
    /\ threads[i].pc = "finally"
    /\ is_running' = FALSE
    /\ threads' = Without(threads, i)
    /\ UNCHANGED << prog, pc, fsVars, vanished, roots, scanVars, duplicates,
                    cfg, started, log, pass, normVars, confVars, edits,
                    snap >>

\* process_duplicates of the GUI; create and confirm are the user's answers
\* to "Create it?" and to "Are you sure?".  It returns at once, nothing
\* changed, when an operation is in progress, when there are no duplicates,
\* when no destination is given, and when the user declines to create it.
ProcessDuplicates(create, confirm) ==
    /\ prog = "gui"
    /\ ~OperationInProgress
    /\ duplicates # << >>
    /\ cfg.action = "move" => cfg.dest_dir # << >>
    /\ (cfg.action = "move" /\ cfg.dest_dir \notin dirs) => create
    /\ started < MaxStarts
    /\ dirs' = IF cfg.action = "move" THEN dirs \cup {cfg.dest_dir} ELSE dirs
    /\ IF confirm
       THEN /\ is_running' = TRUE
            /\ threads' = Append(threads, NewThread("process"))
            /\ started' = started + 1
            /\ pass' = [pass EXCEPT
                          !.confirmed =
                             [action |-> cfg.action,
                              dest |-> IF cfg.action = "move"
                                       THEN cfg.dest_dir ELSE << >>]]
       ELSE UNCHANGED << is_running, threads, started, pass >>
    /\ UNCHANGED << prog, pc, disk, locked, vanished, roots, scanVars,
                    duplicates, cfg, log, normVars, confVars, edits,
                    snap >>

\* run_processing: the controls are read
ProcessRead(i) ==
    /\ threads[i].kind = "process"
    /\ threads[i].pc = "start"
    /\ threads' = [threads EXCEPT
                      ![i].pc = "loop",
                      ![i].action = cfg.action,
                      ![i].dest = IF cfg.action = "move" THEN cfg.dest_dir
                                  ELSE << >>]
    /\ log' = << >>
    /\ pass' = [state |-> "running", disk |-> disk, dirs |-> dirs,
                todo |-> AllDuplicates(duplicates), dry_run |-> FALSE,
                move_dir |-> IF cfg.action = "move" THEN cfg.dest_dir
                             ELSE << >>,
                confirmed |-> pass.confirmed]
    /\ UNCHANGED << prog, pc, fsVars, vanished, roots, scanVars, duplicates,
                    cfg, is_running, started, normVars, confVars, edits,
                    snap >>

\* run_processing: one turn of the loop, or, past its end, the result is
\* cleared
ProcessStep(i) ==
    /\ threads[i].kind = "process"
    /\ threads[i].pc = "loop"
    /\ LET t == threads[i]
       IN  IF t.idx > Len(pass.todo)
           THEN /\ duplicates' = << >>
                /\ threads' = [threads EXCEPT ![i].pc = "finally"]
                /\ pass' = [pass EXCEPT !.state = "done"]
                /\ UNCHANGED << disk, log >>
           ELSE LET r == ActOnFile(disk, dirs, locked, pass.todo[t.idx], t.dest)
                IN  /\ disk' = r.disk
                    /\ log' = Append(log, r.entry)
                    /\ threads' = [threads EXCEPT ![i].idx = t.idx + 1]
                    /\ UNCHANGED << duplicates, pass >>
    /\ UNCHANGED << prog, pc, dirs, locked, vanished, roots, scanVars, cfg,
                    is_running, started, normVars, confVars, edits, snap >>

\* what one change of a control by the user may leave in the controls c
EditChoices(c) ==
    { [c EXCEPT !.source_dir = DirAS],
      [c EXCEPT !.use_id3_tags = has_mutagen /\ ~c.use_id3_tags],
      [c EXCEPT !.format_priority =
                    IF c.format_priority = RaisedMp3 THEN FORMAT_PRIORITY
                    ELSE RaisedMp3],
      [c EXCEPT !.action = IF c.action = "move" THEN "delete" ELSE "move"],
      [c EXCEPT !.dest_dir = DirAS] } \ {c}

\* the user changes a control while a worker runs: the field of the source
\* or of the destination, the check box of the tags (there is none without
\* mutagen), a spin box of the format priorities, the radio buttons of the
\* action
EditControls(c) ==
    /\ prog = "gui"
    /\ threads # << >>
    /\ edits < MaxEdits
    /\ cfg' = c
    /\ edits' = edits + 1
    /\ UNCHANGED << prog, pc, fsVars, vanished, roots, scanVars, duplicates,
                    is_running, threads, started, log, pass, normVars,
                    confVars, snap >>

Next ==
    \/ \E directories \in RootLists, similarity_threshold \in Thresholds :
          CliCollect(directories, similarity_threshold)
    \/ CliResolve
    \/ \E dry_run \in BOOLEAN, move_dir \in MoveDirChoices :
          CliProcess(dry_run, move_dir)
    \/ CliQuit
    \/ \E p \in DOMAIN disk : Vanish(p)
    \/ StartScan
    \/ \E create \in BOOLEAN, confirm \in BOOLEAN :
          ProcessDuplicates(create, confirm)
    \/ \E i \in DOMAIN threads :
          \/ ScanRead(i)
          \/ ScanWalk(i)
          \/ ScanKey(i)
          \/ ScanGroup(i)
          \/ ScanScore(i)
          \/ ProcessRead(i)
          \/ ProcessStep(i)
          \/ WorkerFinally(i)

Spec == Init /\ [][Next]_vars

(***************************************************************************)
(* SpecFair: the same, the worker threads scheduled.  A thread that has    *)
(* been started runs: whenever a worker has a step to take, one is taken   *)
(* in the end.  Nothing is assumed of the user or of the environment.      *)
(***************************************************************************)
\* a step of a worker thread
WorkerStep ==
    \E i \in DOMAIN threads :
        \/ ScanRead(i)
        \/ ScanWalk(i)
        \/ ScanKey(i)
        \/ ScanGroup(i)
        \/ ScanScore(i)
        \/ ProcessRead(i)
        \/ ProcessStep(i)
        \/ WorkerFinally(i)

\* a worker has a step to take: a thread stands at the guard of one of the
\* worker actions.  Each of them is its guard and assignments that change
\* threads, so this is ENABLED <<WorkerStep>>_vars.
WorkerHasStep ==
    \E i \in DOMAIN threads :
        LET t == threads[i]
        IN  \/ t.kind = "scan" /\ t.pc \in {"start", "walk", "score"}
            \/ t.kind = "scan" /\ t.pc = "group"
                  /\ Len(t.keys) <= Len(all_files)
            \/ t.kind = "process" /\ t.pc \in {"start", "loop"}
            \/ t.pc = "finally"

\* weak fairness of the worker steps, WF_vars(WorkerStep), with its ENABLED
\* written as the guard
WorkerFairness == []<>(~WorkerHasStep) \/ []<><<WorkerStep>>_vars

SpecFair == Init /\ [][Next]_vars /\ WorkerFairness

(***************************************************************************)
(* SpecLive: the programs on a disk whose files have tags, the GUI with    *)
(* mutagen or without, and a user who changes the controls while a worker  *)
(* runs.                                                                   *)
(***************************************************************************)
NextLive ==
    \/ Next
    \/ \E c \in EditChoices(cfg) : EditControls(c)

SpecLive == InitLive /\ [][NextLive]_vars

(***************************************************************************)
(* SpecNorm: normalize_title as a function of the base name, applied once  *)
(* and then again to its own result.                                       *)
(***************************************************************************)
\* what base names are made of
Pieces ==
    << <<"1">>, <<" ">>, <<"-">>, <<"_">>, <<".">>, <<"a">>, <<"B">>,
       <<"(">>, <<")">>, <<"[">>, <<"]">>,
       <<"L", "i", "v", "e">>, <<"M", "i", "x">>, <<" ", "-", " ">> >>

RECURSIVE Concat(_)
Concat(ps) == IF ps = << >> THEN << >> ELSE Pieces[Head(ps)] \o Concat(Tail(ps))

\* no disk, no scan, no GUI: the state of the other programs at rest
AtRest ==
    /\ disk = NoSizes
    /\ dirs = {}
    /\ locked = {}
    /\ vanished = 0
    /\ roots = << >>
    /\ all_files = << >>
    /\ file_sizes = NoSizes
    /\ candidates = << >>
    /\ scan_error = FALSE
    /\ duplicates = << >>
    /\ is_running = FALSE
    /\ threads = << >>
    /\ started = 0
    /\ log = << >>
    /\ pass = NoPass
    /\ edits = 0
    /\ snap = NoSnap

InitNorm ==
    /\ prog = "norm"
    /\ pc = "name"
    /\ \E n \in 0..MaxPieces : \E ps \in [1..n -> DOMAIN Pieces] :
          nname = Concat(ps)
    /\ stripped = << >>
    /\ once = << >>
    /\ twice = << >>
    /\ cfg = DefaultCfg
    /\ has_mutagen = FALSE
    /\ cfg_file = NoFile
    /\ conf = NoConf
    /\ AtRest

NormOnce ==
    /\ prog = "norm"
    /\ pc = "name"
    /\ stripped' = StripTrackPrefix(nname)
    /\ once' = normalize_title(nname)
    /\ pc' = "once"
    /\ UNCHANGED << prog, fsVars, vanished, roots, scanVars, duplicates,
                    guiVars, log, pass, nname, twice, confVars, edits,
                    snap >>

NormTwice ==
    /\ prog = "norm"
    /\ pc = "once"
    /\ twice' = normalize_title(once)
    /\ pc' = "twice"
    /\ UNCHANGED << prog, fsVars, vanished, roots, scanVars, duplicates,
                    guiVars, log, pass, nname, stripped, once, confVars,
                    edits, snap >>

NextNorm == NormOnce \/ NormTwice

SpecNorm == InitNorm /\ [][NextNorm]_vars

(***************************************************************************)
(* The configuration file of the GUI.  __init__ gives the controls their   *)
(* first values, calls load_config and then create_ui; save_config writes  *)
(* the controls to the file; the next instance of the application starts   *)
(* from that file.                                                         *)
(***************************************************************************)
\* a value of a JSON document, and of the dict json.load makes of it: a
\* "string", a "number", a "boolean" or an "object"
Json(t, v) == [t |-> t, v |-> v]

\* the dict of a configuration: the values under their keys, each of its
\* type
Document(config) ==
    [source_dir |-> Json("string", config.source_dir),
     dest_dir |-> Json("string", config.dest_dir),
     threshold |-> Json("number", config.threshold),
     action |-> Json("string", config.action),
     verbose |-> Json("boolean", config.verbose),
     use_id3_tags |-> Json("boolean", config.use_id3_tags),
     exact_size_match |-> Json("boolean", config.exact_size_match),
     format_priority |-> Json("object", config.format_priority)]

\* the controls as __init__ makes them, before load_config
TkDefaults ==
    [source_dir |-> << >>, dest_dir |-> << >>, threshold |-> 85,
     action |-> "move", verbose |-> TRUE, use_id3_tags |-> TRUE,
     exact_size_match |-> FALSE, format_priority |-> FORMAT_PRIORITY]

\* what the configuration file may hold under each key when the application
\* starts: values save_config writes, and values it never writes (a
\* threshold and a flag that are strings, an action that is none of the
\* two, a format-priority mapping of one extension only)
PersistedValues ==
    [source_dir |-> << Json("string", DirA) >>,
     dest_dir |-> << Json("string", DirD) >>,
     threshold |-> << Json("number", 100), Json("string", "high") >>,
     action |-> << Json("string", "delete"), Json("string", "purge") >>,
     verbose |-> << Json("boolean", FALSE), Json("string", "maybe") >>,
     use_id3_tags |-> << Json("boolean", FALSE) >>,
     exact_size_match |-> << Json("boolean", TRUE) >>,
     format_priority |-> << Json("object", RaisedMp3),
                            Json("object", (ExtMp3 :> 5)) >>]

\* the document that holds, for each key, the value picked (none for 0)
Picked(pick) ==
    [k \in {key \in DOMAIN pick : pick[key] > 0} |->
        PersistedValues[k][pick[k]]]

\* dict.pop(key) and dict.update(other)
Pop(dict, key) == [k \in DOMAIN dict \ {key} |-> dict[k]]

Update(dict, other) ==
    [k \in DOMAIN dict \cup DOMAIN other |->
        IF k \in DOMAIN other THEN other[k] ELSE dict[k]]

\* the words Tcl reads as a boolean
BooleanWords ==
    ("1" :> TRUE) @@ ("0" :> FALSE) @@ ("true" :> TRUE) @@ ("false" :> FALSE)
      @@ ("yes" :> TRUE) @@ ("no" :> FALSE) @@ ("on" :> TRUE)
      @@ ("off" :> FALSE)

\* BooleanVar.set: getboolean of the value, which raises for what is no
\* boolean, no integer and no boolean word
getboolean(j) ==
    CASE j.t = "boolean" -> [ok |-> TRUE, v |-> j.v]
      [] j.t = "number" -> [ok |-> TRUE, v |-> j.v # 0]
      [] j.t = "string" /\ j.v \in DOMAIN BooleanWords ->
            [ok |-> TRUE, v |-> BooleanWords[j.v]]
      [] OTHER -> [ok |-> FALSE, v |-> FALSE]

\* f"{value:.2f}" raises for what is no number; True is 1, False is 0
FormatsAsNumber(j) == j.t \in {"number", "boolean"}

\* the threshold a number leaves in threshold_var, in hundredths
AsNumber(j) ==
    IF j.t = "boolean" THEN (IF j.v THEN 100 ELSE 0) ELSE j.v

\* load_config: what it leaves in the controls, and whether it raised.  The
\* try block covers the reading of the file only; the controls are set after
\* it, one after the other, and the first that raises ends load_config with
\* the controls before it set.  (When the threshold is no number
\* threshold_var keeps that value; the controls here keep the threshold they
\* had, and nothing reads it afterwards.)
load_config(file, mutagen, controls) ==
    LET loaded == IF file.kind = "json" THEN file.fields ELSE << >>
        config == Update(Document(DEFAULT_CONFIG),
                         Pop(loaded, "format_priority"))
        c1 == IF "format_priority" \in DOMAIN loaded
              THEN [controls EXCEPT
                       !.format_priority = loaded.format_priority.v]
              ELSE controls
        c2 == [c1 EXCEPT !.source_dir = config.source_dir.v,
                         !.dest_dir = config.dest_dir.v]
        c3 == [c2 EXCEPT !.threshold = AsNumber(config.threshold),
                         !.action = config.action.v]
        verbose == getboolean(config.verbose)
        c4 == [c3 EXCEPT !.verbose = verbose.v]
        exact == getboolean(config.exact_size_match)
        c5 == [c4 EXCEPT !.exact_size_match = exact.v]
        tags == getboolean(config.use_id3_tags)
        c6 == [c5 EXCEPT !.use_id3_tags = tags.v]
    IN  IF ~FormatsAsNumber(config.threshold)
        THEN [raised |-> TRUE, controls |-> c2]
        ELSE IF ~verbose.ok THEN [raised |-> TRUE, controls |-> c3]
        ELSE IF ~exact.ok THEN [raised |-> TRUE, controls |-> c4]
        ELSE IF ~(mutagen /\ "use_id3_tags" \in DOMAIN config)
        THEN [raised |-> FALSE, controls |-> c5]
        ELSE IF ~tags.ok THEN [raised |-> TRUE, controls |-> c5]
        ELSE [raised |-> FALSE, controls |-> c6]

\* create_ui: without mutagen it clears the check box of the tags; it makes
\* a spin box for each extension of self.format_priority
create_ui(controls, mutagen) ==
    IF mutagen THEN controls ELSE [controls EXCEPT !.use_id3_tags = FALSE]

\* a faulty save_config, to try C18 against: the format priorities are not
\* written
save_config_without_priority(controls) ==
    Pop(Document(controls), "format_priority")

\* save_config: the document it writes
save_config(controls) == Document(controls)

\* what one change of a control by the user may leave in the controls c:
\* the field of the destination, the radio buttons of the action, the check
\* boxes, the spin box of mp3
WidgetChoices(c, mutagen) ==
    { [c EXCEPT !.dest_dir = DirAS],
      [c EXCEPT !.action = "move"],
      [c EXCEPT !.action = "delete"],
      [c EXCEPT !.verbose = ~c.verbose],
      [c EXCEPT !.exact_size_match = ~c.exact_size_match],
      [c EXCEPT !.use_id3_tags = mutagen /\ ~c.use_id3_tags],
      [c EXCEPT !.format_priority[ExtMp3] = 7] } \ {c}

\* how a write of the configuration file may end: the document is in the
\* file, the file could not be opened, the write broke off
SaveOutcomes == {"saved", "refused", "torn"}

InitConf ==
    /\ prog = "conf"
    /\ pc = "off"
    /\ has_mutagen \in BOOLEAN
    /\ \/ cfg_file = NoFile
       \/ cfg_file = [kind |-> "garbage", fields |-> << >>]
       \/ \E pick \in [DOMAIN PersistedValues -> 0..2] :
             /\ \A k \in DOMAIN pick : pick[k] <= Len(PersistedValues[k])
             /\ cfg_file = [kind |-> "json", fields |-> Picked(pick)]
    /\ cfg = TkDefaults
    /\ conf = NoConf
    /\ nname = << >>
    /\ stripped = << >>
    /\ once = << >>
    /\ twice = << >>
    /\ AtRest

\* __init__ up to load_config
LoadConfig ==
    /\ prog = "conf"
    /\ pc = "off"
    /\ LET r == load_config(cfg_file, has_mutagen, cfg)
       IN  /\ cfg' = r.controls
           /\ pc' = IF r.raised THEN "raised" ELSE "loaded"
    /\ UNCHANGED << prog, fsVars, vanished, roots, scanVars, duplicates,
                    is_running, threads, started, log, pass, normVars,
                    confVars, edits, snap >>

\* __init__ after load_config
CreateUi ==
    /\ prog = "conf"
    /\ pc = "loaded"
    /\ cfg' = create_ui(cfg, has_mutagen)
    /\ pc' = "ready"
    /\ UNCHANGED << prog, fsVars, vanished, roots, scanVars, duplicates,
                    is_running, threads, started, log, pass, normVars,
                    confVars, edits, snap >>

\* the user changes a control
SetControls(c) ==
    /\ prog = "conf"
    /\ pc = "ready"
    /\ conf.state = "none"
    /\ edits < MaxEdits
    /\ cfg' = c
    /\ edits' = edits + 1
    /\ UNCHANGED << prog, pc, fsVars, vanished, roots, scanVars, duplicates,
                    is_running, threads, started, log, pass, normVars,
                    confVars, snap >>

\* the button "Save Settings"
SaveConfig(outcome) ==
    /\ prog = "conf"
    /\ pc = "ready"
    /\ conf.state = "none"
    /\ cfg_file' =
          CASE outcome = "saved" ->
                  [kind |-> "json", fields |-> save_config(cfg)]
            [] outcome = "torn" -> [kind |-> "garbage", fields |-> << >>]
            [] OTHER -> cfg_file
    /\ conf' = [conf EXCEPT !.state = outcome, !.before = cfg]
    /\ UNCHANGED << prog, pc, fsVars, vanished, roots, scanVars, duplicates,
                    guiVars, log, pass, normVars, has_mutagen, edits, snap >>

\* the application is closed and started again: a fresh instance, whose
\* controls __init__ makes anew
NewInstance ==
    /\ prog = "conf"
    /\ pc = "ready"
    /\ conf.state # "none"
    /\ conf.instance = 1
    /\ pc' = "off"
    /\ cfg' = TkDefaults
    /\ conf' = [conf EXCEPT !.instance = 2]
    /\ UNCHANGED << prog, fsVars, vanished, roots, scanVars, duplicates,
                    is_running, threads, started, log, pass, normVars,
                    has_mutagen, cfg_file, edits, snap >>

NextConf ==
    \/ LoadConfig
    \/ CreateUi
    \/ \E c \in WidgetChoices(cfg, has_mutagen) : SetControls(c)
    \/ \E outcome \in SaveOutcomes : SaveConfig(outcome)
    \/ NewInstance

SpecConf == InitConf /\ [][NextConf]_vars

(***************************************************************************)
(* Discovery.  The command line tool collects by the keys of               *)
(* FORMAT_PRIORITY, the GUI by the keys of self.format_priority, which     *)
(* load_config takes from the configuration file.                          *)
(***************************************************************************)
\* the files of Candidates and one more, whose extension is in upper case
DiscFiles ==
    Candidates \o << Path(DirA, <<"x">>, <<".", "M", "P", "3">>) >>

\* the format-priority mappings a configuration file may hold: all the
\* extensions, one of them only, one more than the built-in ones
PersistedTables ==
    {RaisedMp3, (ExtMp3 :> 5), FORMAT_PRIORITY @@ (ExtTxt :> 1)}

\* the controls once __init__ is through, where mutagen is missing: the
\* format priorities as load_config and create_ui leave them, there being
\* no configuration file or one that holds such a mapping; the other
\* controls as the user has set them (the plainest ones where the mapping
\* is from the file)
LoadedCfgChoices ==
    LET files ==
            {NoFile}
              \cup {[kind |-> "json",
                     fields |-> [format_priority |-> Json("object", t)]] :
                       t \in PersistedTables}
        plain == [DefaultCfg EXCEPT !.use_id3_tags = FALSE]
    IN  {[cf[1] EXCEPT !.format_priority =
                  create_ui(load_config(cf[2], FALSE, TkDefaults).controls,
                            FALSE).format_priority] :
            cf \in {pair \in CfgChoices \X files :
                       pair[2] = NoFile \/ pair[1] = plain}}

InitDisc ==
    /\ LET contents ==
               Contents
                 \o << [readable |-> FALSE, artist |-> << >>,
                        title |-> << >>, bitrate |-> 0] >>
           choices == SizeChoices \o << {1024} >>
       IN  \E sz \in [DOMAIN DiscFiles -> {0, 512, 1024, 2048}] :
              /\ \A i \in DOMAIN DiscFiles : sz[i] \in choices[i]
              /\ disk = FilesOnDisk(DiscFiles, contents, sz)
    /\ \E d \in SUBSET {DirD} :
          /\ (Path(DirD, <<"x">>, ExtMp3) \in DOMAIN disk => DirD \in d)
          /\ dirs = {DirA, DirAS, DirAT} \cup d
    /\ locked \in {{}, {DirAS}}
    /\ prog \in {"cli", "gui"}
    /\ has_mutagen = FALSE
    /\ IF prog = "gui" THEN cfg \in LoadedCfgChoices ELSE cfg = DefaultCfg
    /\ InitRest

SpecDisc == InitDisc /\ [][Next]_vars

(***************************************************************************)
(* The properties.                                                         *)
(***************************************************************************)

\* C1: no file that is the keeper of a group is deleted or moved by the
\* action pass, and no keeper of any group stands among the duplicates of
\* any group, whatever roots were given.
C1_KeeperNeverTouched ==
    \A i \in DOMAIN duplicates :
        LET k == duplicates[i].val.keeper
        IN  /\ \A j \in DOMAIN duplicates :
                  \A m \in DOMAIN duplicates[j].val.duplicates :
                      duplicates[j].val.duplicates[m] # k
            /\ (prog = "cli" \/ pass.state = "running") =>
                  \A e \in DOMAIN log :
                      log[e].op \in {"moved", "deleted"} => log[e].src # k

\* C2: after process_duplicates with dry_run=True the files and the
\* directories on disk are those before the call, for a deletion and for a
\* move, whether or not move_dir existed.
C2_DryRunChangesNothing ==
    (pass.state = "done" /\ pass.dry_run) =>
        (disk = pass.disk /\ dirs = pass.dirs)

\* C3: every group of a scan result has at least two members, the keeper
\* and at least one duplicate, in the command line tool and in the GUI with
\* exact-size matching off or on.
C3_GroupsHaveTwoMembers ==
    \A i \in DOMAIN duplicates : Len(duplicates[i].val.duplicates) >= 1

\* a scan has found a group and has dropped a name that only one file bears
C3_Witness ==
    /\ duplicates # << >>
    /\ \E n \in DOMAIN all_files :
          /\ \A m \in DOMAIN all_files :
                normalize_title(all_files[m].name)
                    = normalize_title(all_files[n].name) => m = n
          /\ \A i \in DOMAIN duplicates :
                duplicates[i].val.keeper # all_files[n]

\* C4: in every group of a scan result no member scores more than the
\* keeper, and a member other than the keeper that scores as much was
\* discovered after it.
C4_KeeperIsFirstMaximum ==
    \A i \in DOMAIN duplicates :
        LET g == duplicates[i].val
            first(f) == CHOOSE n \in DOMAIN all_files :
                            /\ all_files[n] = f
                            /\ \A m \in 1..(n - 1) : all_files[m] # f
        IN  \A j \in DOMAIN g.duplicates :
                LET f == g.duplicates[j]
                IN  /\ g.scores[f] <= g.scores[g.keeper]
                    /\ (g.scores[f] = g.scores[g.keeper] /\ f # g.keeper)
                          => first(g.keeper) < first(f)

\* a group in which another file scores as much as the keeper
C4_Witness ==
    \E i \in DOMAIN duplicates :
        LET g == duplicates[i].val
        IN  \E j \in DOMAIN g.duplicates :
                /\ g.duplicates[j] # g.keeper
                /\ g.scores[g.duplicates[j]] = g.scores[g.keeper]

\* C5: once a GUI scan with exact-size matching has grouped its files, the
\* groups it goes on to score are exactly the classes of two or more files
\* of one normalized name and one size, each under the key
\* "<name> (<size> bytes)", one group for each class; and every group of the
\* result is one of them.
C5_ExactSizeGroups ==
    ( /\ prog = "gui"
      /\ cfg.exact_size_match
      /\ \A t \in DOMAIN threads :
            ~(threads[t].kind = "scan" /\ threads[t].pc = "group") ) =>
        LET class      == AsList([n \in DOMAIN all_files |->
                                     << normalize_title(all_files[n].name),
                                        file_sizes[all_files[n]] >>])
            members(c) == {n \in DOMAIN all_files : class[n] = c}
            big        == {c \in {class[n] : n \in DOMAIN all_files} :
                              Cardinality(members(c)) >= 2}
            files(seq) == {seq[j] : j \in DOMAIN seq}
        IN  /\ Len(candidates) = Cardinality(big)
            /\ \A i \in DOMAIN candidates :
                  \E c \in big :
                      /\ candidates[i].key = SizeKey(c[1], c[2])
                      /\ files(candidates[i].val)
                            = {all_files[n] : n \in members(c)}
                      /\ Len(candidates[i].val) = Cardinality(members(c))
            /\ \A i \in DOMAIN duplicates :
                  \E j \in DOMAIN candidates :
                      /\ duplicates[i].key = candidates[j].key
                      /\ {duplicates[i].val.keeper}
                            \cup files(duplicates[i].val.duplicates)
                            = files(candidates[j].val)

\* an exact-size scan whose result holds two groups of one normalized name
C5_Witness ==
    /\ prog = "gui"
    /\ cfg.exact_size_match
    /\ \E i, j \in DOMAIN duplicates :
          /\ i # j
          /\ normalize_title(duplicates[i].val.keeper.name)
                = normalize_title(duplicates[j].val.keeper.name)

\* C6: normalize_title applied to its own result, taken as a fresh base
\* name, returns that result.
C6_NormalizeIdempotent ==
    pc = "twice" => twice = once

\* C7: in an action pass that is not a dry run, the lines of the log are
\* about the duplicates of the pass, one each and in their order, a failure
\* being a line against its file; at the end of the pass there is a line for
\* every duplicate.
C7_EveryDuplicateAttempted ==
    (pass.state # "none" /\ ~pass.dry_run) =>
        /\ Len(log) <= Len(pass.todo)
        /\ \A i \in DOMAIN log :
              /\ log[i].src = pass.todo[i]
              /\ log[i].op \in {"error", "moved", "deleted"}
        /\ pass.state = "done" => Len(log) = Len(pass.todo)

\* a finished pass in which a duplicate was moved or deleted after the
\* action on an earlier one had failed
C7_Witness ==
    /\ pass.state = "done"
    /\ ~pass.dry_run
    /\ \E i, j \in DOMAIN log :
          /\ i < j
          /\ log[i].op = "error"
          /\ log[j].op \in {"moved", "deleted"}

\* C8: when a scan has ended, every group it set out to score whose files
\* are all still there is in the result, whatever happened to the files of
\* other groups.
C8_ScoringFailureIsolated ==
    ( \/ prog = "cli" /\ pc \in {"found", "crashed"}
      \/ prog = "gui" /\ threads = << >> /\ pass.state = "none" ) =>
        \A i \in DOMAIN candidates :
            (\A j \in DOMAIN candidates[i].val :
                candidates[i].val[j] \in DOMAIN disk)
              => HasKey(duplicates, candidates[i].key)

\* C9, as stated: a duplicate moved where a file of its base name stood is
\* written under the base name with '_' and the digest of its path, and the
\* file that stood there is left as it was; moved where none stood, it keeps
\* its base name.
C9_CollisionKeepsBoth ==
    \A i \in DOMAIN log :
        log[i].op = "moved" =>
            LET e      == log[i]
                plain  == Path(pass.move_dir, e.src.name, e.src.ext)
                hashed == Path(pass.move_dir,
                               e.src.name \o <<"_">>
                                 \o Md5Hex6(PathString(e.src)),
                               e.src.ext)
            IN  /\ e.target_after = e.src_before
                /\ IF e.collided
                   THEN e.target = hashed /\ e.plain_after = e.plain_before
                   ELSE e.target = plain

\* C9, amended: the file that stood there is left as it was when it is
\* another file than the duplicate; a duplicate that itself stands in the
\* destination directory is renamed there.
C9_CollisionKeepsOther ==
    \A i \in DOMAIN log :
        log[i].op = "moved" =>
            LET e      == log[i]
                plain  == Path(pass.move_dir, e.src.name, e.src.ext)
                hashed == Path(pass.move_dir,
                               e.src.name \o <<"_">>
                                 \o Md5Hex6(PathString(e.src)),
                               e.src.ext)
            IN  /\ e.target_after = e.src_before
                /\ IF e.collided
                   THEN /\ e.target = hashed
                        /\ e.src # plain => e.plain_after = e.plain_before
                        /\ e.src = plain => e.plain_after = 0
                   ELSE e.target = plain

\* a duplicate was moved where another file of its base name stood
C9_Witness ==
    \E i \in DOMAIN log :
        /\ log[i].op = "moved"
        /\ log[i].collided
        /\ log[i].src # Path(pass.move_dir, log[i].src.name, log[i].src.ext)

\* C10: in the GUI at most one worker is active at any time, and while one
\* is, is_running is True.
C10_SingleWorker ==
    /\ Len(threads) <= 1
    /\ threads # << >> => is_running

\* a worker is under way after another has come and gone
C10_Witness ==
    /\ Len(threads) = 1
    /\ threads[1].pc # "start"
    /\ started = 2

\* C11: a GUI scan works from the controls as they stood when start_scan
\* started it: it walks the source directory start_scan validated, it
\* normalizes every file under the use-tags flag of that moment and scores
\* every file with the format priorities of that moment, whatever the user
\* changes while the worker runs.
C11_ScanUsesSnapshot ==
    snap.state # "none" =>
        /\ snap.state = "walked" => snap.source_dir = snap.cfg.source_dir
        /\ \A k \in DOMAIN snap.flags :
              snap.flags[k] = snap.cfg.use_id3_tags
        /\ \A k \in DOMAIN snap.tables :
              snap.tables[k].table = snap.cfg.format_priority

\* the score the specification gives a file, times 1024: the priority of
\* its extension (0 when the table has none) times 1000, its size in KiB
\* and, where with_bitrate, its bitrate in kbps
SpecifiedScore(file, ext, table, with_bitrate) ==
    (IF ext \in DOMAIN table THEN table[ext] ELSE 0) * 1000 * 1024
      + file.size
      + (IF with_bitrate THEN (file.bitrate * 1024) \div 1000 ELSE 0)

\* C12: the score of every file of a result is priority(extension) * 1000
\* + size / 1024, the priority being 0 for an extension the table lacks;
\* the bitrate in kbps is added for an .mp3 file that mutagen has measured,
\* in the GUI where mutagen is there, and nothing else is added to any
\* file.  (The files are looked at while they still stand where they were
\* scored.)
C12_ScoreFormula ==
    pass.state = "none" =>
        \A i \in DOMAIN duplicates :
            \A f \in DOMAIN duplicates[i].val.scores :
                f \in DOMAIN disk =>
                    LET score == duplicates[i].val.scores[f]
                        ext   == Lower(f.ext)
                    IN  IF prog = "cli"
                        THEN score = SpecifiedScore(disk[f], ext,
                                                    FORMAT_PRIORITY, FALSE)
                        ELSE \E k \in DOMAIN snap.tables :
                                /\ snap.tables[k].f = f
                                /\ score = SpecifiedScore(
                                       disk[f], ext, snap.tables[k].table,
                                       /\ has_mutagen
                                       /\ ext = ExtMp3
                                       /\ disk[f].readable)

\* the GUI, with mutagen, has scored a group that holds an mp3 file whose
\* bitrate it measured and a file of another format that has a bitrate too
C12_Witness ==
    /\ prog = "gui"
    /\ has_mutagen
    /\ pass.state = "none"
    /\ \E i \in DOMAIN duplicates :
          \E f, g \in DOMAIN duplicates[i].val.scores :
              /\ f \in DOMAIN disk
              /\ g \in DOMAIN disk
              /\ Lower(f.ext) = ExtMp3
              /\ disk[f].readable
              /\ disk[f].bitrate > 0
              /\ Lower(g.ext) # ExtMp3
              /\ disk[g].bitrate > 0

\* a scan without exact-size matching has run to its end, no file lost
ScanComplete ==
    \/ prog = "cli" /\ pc = "found"
    \/ /\ prog = "gui"
       /\ threads = << >>
       /\ snap.state = "walked"
       /\ ~scan_error
       /\ pass.state = "none"
       /\ ~cfg.exact_size_match

\* the scan has come upon both files
BothFound(f, g) ==
    /\ \E n \in DOMAIN all_files : all_files[n] = f
    /\ \E n \in DOMAIN all_files : all_files[n] = g

\* the result holds a group under key, f and g among its members, with
\* the keeper and the scores (in KiB) given
ScenarioGroup(key, f, score_f, g, score_g, keeper) ==
    /\ HasKey(duplicates, key)
    /\ LET group == Lookup(duplicates, key)
       IN  /\ {f, g} \subseteq DOMAIN group.scores
           /\ group.scores[f] = score_f * 1024
           /\ group.scores[g] = score_g * 1024
           /\ group.keeper = keeper

\* C13, as stated: "Track.wma" of 50 KiB scores 50 and "Track.mp3" of 2000
\* KiB scores 2000, both have one key, and the mp3 is the keeper.
C13_ScenarioB_AsStated ==
    (ScanComplete /\ BothFound(ScenarioFiles[3], ScenarioFiles[4])) =>
        ScenarioGroup(<<"t", "r", "a", "c", "k">>,
                      ScenarioFiles[3], 50, ScenarioFiles[4], 2000,
                      ScenarioFiles[4])

\* C13, amended: "Track.wma" of 50 KiB scores 50 and "Track.mp3" of 2000
\* KiB scores 3000 (priority 1 * 1000 + 2000), both have the key "track",
\* and the mp3 is the keeper.
C13_ScenarioB ==
    (ScanComplete /\ BothFound(ScenarioFiles[3], ScenarioFiles[4])) =>
        ScenarioGroup(<<"t", "r", "a", "c", "k">>,
                      ScenarioFiles[3], 50, ScenarioFiles[4], 3000,
                      ScenarioFiles[4])

\* a scan of the two Track files has run to its end
C13_Witness ==
    /\ ScanComplete
    /\ BothFound(ScenarioFiles[3], ScenarioFiles[4])
    /\ HasKey(duplicates, <<"t", "r", "a", "c", "k">>)

\* C14: "01 - Song.mp3" of 5000 KiB and "Song (Remastered).flac" of 3000
\* KiB both have the key "song", score 6000 and 7000, are in one group, and
\* the flac file is the keeper.
C14_ScenarioA ==
    (ScanComplete /\ BothFound(ScenarioFiles[1], ScenarioFiles[2])) =>
        /\ normalize_title(ScenarioFiles[1].name) = <<"s", "o", "n", "g">>
        /\ normalize_title(ScenarioFiles[2].name) = <<"s", "o", "n", "g">>
        /\ ScenarioGroup(<<"s", "o", "n", "g">>,
                         ScenarioFiles[1], 6000, ScenarioFiles[2], 7000,
                         ScenarioFiles[2])

\* a scan of the two Song files has run to its end, in the GUI
C14_Witness ==
    /\ prog = "gui"
    /\ ScanComplete
    /\ BothFound(ScenarioFiles[1], ScenarioFiles[2])
    /\ HasKey(duplicates, <<"s", "o", "n", "g">>)

\* the n-th file of the scan was keyed with tag-based identity enabled and
\* is still on disk
KeyedWithTags(n) ==
    /\ has_mutagen
    /\ snap.flags[n]
    /\ all_files[n] \in DOMAIN disk

\* mutagen reads an artist and a title from the file
TagsReadable(file, ext) ==
    /\ ext \in {ExtMp3, ExtFlac, ExtM4a}
    /\ file.readable
    /\ file.artist # << >>
    /\ file.title # << >>

\* C15: in a GUI scan with tag-based identity enabled, a file whose tags
\* cannot be read (the file does not open, or artist or title is missing
\* or empty) takes the key of its file name, every other file takes the key
\* lower(artist) + " - " + lower(title), no error is raised, and the scan
\* goes on to key every file.
C15_TagFailureFallsBack ==
    \A t \in DOMAIN threads :
        threads[t].kind = "scan" =>
            /\ threads[t].pc = "group" => ~scan_error
            /\ threads[t].pc \in {"score", "finally"} =>
                  Len(threads[t].keys) = Len(all_files)
            /\ \A n \in DOMAIN threads[t].keys :
                  KeyedWithTags(n) =>
                      LET f == all_files[n]
                      IN  IF TagsReadable(disk[f], Lower(f.ext))
                          THEN threads[t].keys[n]
                                  = Lower(disk[f].artist)
                                      \o <<" ", "-", " ">>
                                      \o Lower(disk[f].title)
                          ELSE threads[t].keys[n] = normalize_title(f.name)

\* a scan has keyed, with tag-based identity enabled, a file that does not
\* open and a file with an artist and a title
C15_Witness ==
    \E t \in DOMAIN threads :
        /\ threads[t].kind = "scan"
        /\ threads[t].pc = "score"
        /\ \E n, m \in DOMAIN threads[t].keys :
              /\ KeyedWithTags(n)
              /\ KeyedWithTags(m)
              /\ ~disk[all_files[n]].readable
              /\ TagsReadable(disk[all_files[m]], Lower(all_files[m].ext))

\* C16: the similarity threshold plays no part in a scan: the groups that
\* find_duplicates and run_scan make of the files they collected, and the
\* keepers and the orders of duplicates that find_duplicates draws from
\* them, are those any other threshold gives; the groups are the classes
\* of files of equal keys.
C16_ThresholdHasNoEffect ==
    \A other \in Thresholds :
        /\ (prog = "cli" /\ pc = "collected") =>
              /\ candidates = GroupSongs(all_files, NameKeys(all_files), other)
              /\ candidates = FilterDuplicates(GroupByName(all_files))
        /\ (prog = "cli" /\ pc = "found") =>
              duplicates
                = ResolveAll(disk, GroupSongs(all_files, NameKeys(all_files),
                                              other))
        /\ \A t \in DOMAIN threads :
              (threads[t].kind = "scan" /\ threads[t].pc = "score") =>
                  LET groups == GroupSongs(all_files, threads[t].keys, other)
                  IN  /\ candidates = IF threads[t].exact
                                      THEN PartitionBySize(groups, file_sizes)
                                      ELSE groups
                      /\ ~threads[t].exact =>
                            candidates
                              = FilterDuplicates(GroupBy(all_files,
                                                         threads[t].keys))

\* a GUI scan under a threshold of 1.0 has grouped files whose names agree
\* only after normalization
C16_Witness ==
    \E t \in DOMAIN threads :
        /\ threads[t].kind = "scan"
        /\ threads[t].pc = "score"
        /\ threads[t].threshold = 100
        /\ \E i \in DOMAIN candidates :
              \E m, n \in DOMAIN candidates[i].val :
                  candidates[i].val[m].name # candidates[i].val[n].name

\* the reference of step 1: a leading run of one or more digits followed
\* by one or more of space, period, dash and underscore is removed
ReferenceStrip(name) ==
    LET digits == RunFrom(name, 1, {"0", "1", "2", "3", "4", "5", "6", "7",
                                    "8", "9"})
        seps   == RunFrom(name, digits + 1, {" ", ".", "-", "_"})
    IN  IF digits >= 1 /\ seps >= 1
        THEN SubSeq(name, digits + seps + 1, Len(name))
        ELSE name

\* C19: step 1 of normalize_title does to every base name what the
\* reference does: it removes a leading run of digits followed by a run of
\* space, period, dash and underscore, and no other character.
C19_PrefixAsSpecified ==
    (prog = "norm" /\ pc # "name") => stripped = ReferenceStrip(nname)

\* C20: in every group of a result, the keeper followed by the duplicates
\* holds the members of the group, each as often as the group does, in an
\* order of scores that never rises and that leaves members of equal
\* scores in their order of discovery; and the scores of the group hold a
\* score for the keeper and for every duplicate.
C20_DuplicatesOrdered ==
    \A i \in DOMAIN duplicates :
        LET group    == duplicates[i].val
            result   == <<group.keeper>> \o group.duplicates
            score(f) == group.scores[f]
        IN  /\ HasKey(candidates, duplicates[i].key)
            /\ \A k \in DOMAIN result : result[k] \in DOMAIN group.scores
            /\ \A k \in 1..(Len(result) - 1) :
                  score(result[k]) >= score(result[k + 1])
            /\ LET members == Lookup(candidates, duplicates[i].key)
               IN  /\ Len(result) = Len(members)
                   /\ \A k \in DOMAIN result :
                         SelectSeq(result,
                                   LAMBDA f : score(f) = score(result[k]))
                           = SelectSeq(members,
                                       LAMBDA f : f \in DOMAIN group.scores
                                                    /\ score(f)
                                                         = score(result[k]))

\* a group of three or more whose duplicates hold two files of equal scores
C20_Witness ==
    \E i \in DOMAIN duplicates :
        LET group == duplicates[i].val
        IN  \E j, k \in DOMAIN group.duplicates :
                /\ j < k
                /\ group.duplicates[j] # group.duplicates[k]
                /\ group.scores[group.duplicates[j]]
                      = group.scores[group.duplicates[k]]
                /\ group.scores[group.keeper]
                      > group.scores[group.duplicates[j]]

\* the type of the value save_config writes under each key
KeyTypes ==
    [source_dir |-> "string", dest_dir |-> "string", threshold |-> "number",
     action |-> "string", verbose |-> "boolean", use_id3_tags |-> "boolean",
     exact_size_match |-> "boolean", format_priority |-> "object"]

\* the value under the key is of the key's type, the action one of the two
WellFormed(key, j) ==
    /\ j.t = KeyTypes[key]
    /\ key = "action" => j.v \in {"move", "delete"}

\* the persisted value of the key where there is a well-formed one
Persisted(file, key) ==
    /\ file.kind = "json"
    /\ key \in DOMAIN file.fields
    /\ WellFormed(key, file.fields[key])

\* what the merge field by field leaves under the key
MergedField(file, key) ==
    IF Persisted(file, key) THEN file.fields[key].v ELSE DEFAULT_CONFIG[key]

\* what the merge extension by extension leaves in the format priorities
MergedPriorities(file) ==
    IF Persisted(file, "format_priority")
    THEN Update(FORMAT_PRIORITY, file.fields.format_priority.v)
    ELSE FORMAT_PRIORITY

\* C17: load_config, whatever keys of the configuration file are missing or
\* hold malformed values, returns without raising, and leaves in each control
\* the persisted value where it is well-formed, the built-in default where it
\* is missing or malformed, the format priorities merged extension by
\* extension.
C17_LoadMergesDefaults ==
    (prog = "conf" /\ conf.instance = 1 /\ pc \in {"loaded", "raised"}) =>
        /\ pc = "loaded"
        /\ \A key \in DOMAIN DEFAULT_CONFIG \ {"format_priority"} :
              cfg[key] = MergedField(cfg_file, key)
        /\ cfg.format_priority = MergedPriorities(cfg_file)

\* a fresh instance runs on the configuration file that save_config wrote
ReloadedAfterSave ==
    /\ prog = "conf"
    /\ conf.state = "saved"
    /\ conf.instance = 2
    /\ pc \in {"loaded", "ready"}

\* C18: when save_config has written the controls and a fresh instance of
\* the application has run load_config on the file, the format priorities,
\* the flags verbose and exact-size-match, the action and the two
\* directories equal those that were saved, and so does the use-tags flag
\* as a scan reads it (HAS_MUTAGEN and the check box); once the instance is
\* through create_ui the check box itself holds the saved value too.
C18_ConfigRoundTrip ==
    ReloadedAfterSave =>
        /\ cfg.format_priority = conf.before.format_priority
        /\ cfg.verbose = conf.before.verbose
        /\ cfg.exact_size_match = conf.before.exact_size_match
        /\ cfg.action = conf.before.action
        /\ cfg.source_dir = conf.before.source_dir
        /\ cfg.dest_dir = conf.before.dest_dir
        /\ (has_mutagen /\ cfg.use_id3_tags)
              = (has_mutagen /\ conf.before.use_id3_tags)
        /\ pc = "ready" => cfg.use_id3_tags = conf.before.use_id3_tags

\* a fresh instance has loaded a saved configuration none of whose values is
\* the default: priorities changed in a spin box, flags, action, directories
C18_Witness ==
    /\ ReloadedAfterSave
    /\ pc = "ready"
    /\ has_mutagen
    /\ conf.before.format_priority # FORMAT_PRIORITY
    /\ conf.before.format_priority[ExtMp3] = 7
    /\ ~conf.before.verbose
    /\ conf.before.exact_size_match
    /\ ~conf.before.use_id3_tags
    /\ conf.before.action = "delete"
    /\ conf.before.source_dir = DirA
    /\ conf.before.dest_dir = DirD

\* the supported extensions
SupportedExtensions ==
    {ExtFlac, ExtWav, ExtAiff, ExtAlac, ExtM4a, ExtMp3, ExtWma}

\* the files below one of the directories whose extension, in lower case,
\* is a supported one
SupportedBelow(d, directories) ==
    {p \in DOMAIN d :
        /\ \E i \in DOMAIN directories : IsUnder(p.dir, directories[i])
        /\ Lower(p.ext) \in SupportedExtensions}

\* the step is the discovery of a scan
DiscoveryStep ==
    \/ prog = "cli" /\ pc = "start" /\ pc' = "collected"
    \/ prog = "gui" /\ snap.state = "started" /\ snap'.state = "walked"

\* the directories the discovery of this step walks
DiscoveredRoots ==
    IF prog = "cli" THEN roots' ELSE << snap'.source_dir >>

\* C21: discovery collects a file if and only if its extension, compared
\* without regard to case, is one of .flac, .wav, .aiff, .alac, .m4a, .mp3,
\* .wma: in the command line tool, and in the GUI whatever configuration it
\* has loaded.
C21_DiscoveryBySupportedExtension ==
    [][DiscoveryStep =>
          {all_files'[i] : i \in DOMAIN all_files'}
             = SupportedBelow(disk, DiscoveredRoots)]_vars

\* the same of the command line tool alone
DiscoveryOfCliBySupportedExtension ==
    [][(DiscoveryStep /\ prog = "cli") =>
          {all_files'[i] : i \in DOMAIN all_files'}
             = SupportedBelow(disk, DiscoveredRoots)]_vars

\* C22: in the GUI an action pass applies what the user confirmed, whatever
\* the user changes in the controls while the worker runs: confirmed a move
\* to a directory, every duplicate acted on is moved into that directory;
\* confirmed a deletion, every one is deleted.
C22_PassAppliesConfirmedAction ==
    (prog = "gui" /\ pass.state # "none") =>
        /\ pass.move_dir = pass.confirmed.dest
        /\ \A i \in DOMAIN log :
              /\ log[i].op = "moved" =>
                    /\ pass.confirmed.action = "move"
                    /\ log[i].target.dir = pass.confirmed.dest
              /\ log[i].op = "deleted" => pass.confirmed.action = "delete"

\* C23: in the GUI, whenever a worker has been started (is_running is
\* True), is_running is False again in the end, also when the worker hits
\* an exception: the guard of the handlers does not refuse for ever.
C23_IsRunningReturnsToFalse == is_running ~> ~is_running

\* a scan was started, its worker hit an exception and has ended, and
\* is_running is False
C23_Witness ==
    /\ prog = "gui"
    /\ started > 0
    /\ scan_error
    /\ threads = << >>
    /\ ~is_running

\* the texts the tags of a file may hold for artist and for title
TagTexts ==
    {<<"a">>, <<"B">>, <<"-">>, <<" ">>, <<"a", " ", "-", " ", "B">>}

\* the string s holds " - "
HoldsDash(s) == \E i \in 1..Len(s) : MatchesAt(s, i, <<" ", "-", " ">>)

\* a flac file with these tags, and an mp3 file of this base name whose tags
\* cannot be read
TaggedFile == Path(DirA, <<"t">>, ExtFlac)

NamedFile(name) == Path(DirA, name, ExtMp3)

TwoFiles(name, artist, title) ==
    (TaggedFile :> FileRecord(1, 1024, [readable |-> TRUE, artist |-> artist,
                                        title |-> title, bitrate |-> 0]))
      @@ (NamedFile(name) :> FileRecord(2, 1024,
                                        [readable |-> FALSE, artist |-> << >>,
                                         title |-> << >>, bitrate |-> 0]))

\* C24: with mutagen and the use of tags switched on, the key of a file
\* whose tags are read holds " - ", the key of a file that falls back to its
\* name (normalize_title of the base name) never does, and so the grouping
\* never puts the two in one group.
C24_TagAndNameKeysApart ==
    (prog = "norm" /\ pc # "name") =>
        \A artist \in TagTexts, title \in TagTexts :
            LET d      == TwoFiles(nname, artist, title)
                by_tag == gui_normalize_title(d, TaggedFile, TRUE, TRUE)
                by_name == gui_normalize_title(d, NamedFile(nname), TRUE,
                                               TRUE)
                songs  == GroupBy(<< TaggedFile, NamedFile(nname) >>,
                                  << by_tag, by_name >>)
            IN  /\ by_name = once
                /\ HoldsDash(by_tag)
                /\ ~HoldsDash(by_name)
                /\ \A n \in DOMAIN songs : Len(songs[n].val) = 1

\* a base name that holds " - " between an artist and a title, normalized
\* to the two with a space between
C24_Witness ==
    /\ prog = "norm"
    /\ pc = "once"
    /\ nname = <<"a", " ", "-", " ", "B">>
    /\ once = <<"a", " ", "b">>

=============================================================================
